---- MODULE Spec2Model ----
(***************************************************************************)
(* Determinant-basis operator propagation of SlowQuant                     *)
(* (slowquant/unitary_coupled_cluster/operator_state_algebra.py).          *)
(*                                                                         *)
(* Conventions of the model                                                *)
(*  - A float is an exact rational <<numerator, denominator>> in lowest    *)
(*    terms with a positive denominator.  Every magnitude the model can    *)
(*    produce is either 0 or far above the 10**-14 thresholds of the code, *)
(*    so "abs(x) < 10**-14" is "x = 0" here.                               *)
(*  - Angles (thetas) are integer multiples of one unit angle whose sine   *)
(*    is 3/5 and whose cosine is 4/5, so np.sin and np.cos are exact.      *)
(*  - numpy arrays are objects of a heap (a sequence of array values; the  *)
(*    object id is the position).  np.copy / zeros_like / a + b allocate,  *)
(*    tmp_state[...] += ... writes in place.                               *)
(*  - Array positions are 1-based (position i models Python index i-1).    *)
(***************************************************************************)
EXTENDS Integers, Sequences, FiniteSets, TLC

VARIABLES ci_info, is_SA, heap, call, ret, pc

vars == <<ci_info, is_SA, heap, call, ret, pc>>

(***************************************************************************)
(* Bounds of the model.                                                    *)
(***************************************************************************)
MaxAmp == 1
MaxSupport == 2
MaxTheta == 1
\* density_matrix.py: the largest numbers of inactive or virtual orbitals,
\* and of active orbitals
MaxFrozen == 1
MaxActive == 2
MaxKappa == 2

(***************************************************************************)
(* Evaluation helpers.  Let(x, F) is F(x) with x evaluated once; For runs  *)
(* a loop body Body(acc, k) for k = 1..n from the accumulator init.  A     *)
(* routine's result is a record [err, heap, ret]: once err is set (an      *)
(* exception is in flight) the remaining loop bodies leave it unchanged.   *)
(***************************************************************************)
Let(x, F(_)) == CHOOSE y \in {F(v) : v \in {x}} : TRUE

RECURSIVE Loop(_, _, _, _)
Loop(Body(_, _), acc, k, n) ==
    IF k > n THEN acc
    ELSE Let(Body(acc, k), LAMBDA v : Loop(Body, v, k + 1, n))

For(Body(_, _), init, n) == Let(init, LAMBDA v : Loop(Body, v, 1, n))

Ok(h, r) == [err |-> "none", heap |-> h, ret |-> r]
Raise(e, h) == [err |-> e, heap |-> h, ret |-> 0]

(***************************************************************************)
(* Float arithmetic as exact rationals.                                    *)
(***************************************************************************)
Abs(x) == IF x < 0 THEN -x ELSE x

\* Euclid's algorithm, as a function so that each step works on values.
GcdOf[a \in Nat, b \in Nat] == IF b = 0 THEN a ELSE GcdOf[b, a % b]

Gcd(a, b) == GcdOf[a, b]

Rat(n, d) ==
    LET g == Gcd(Abs(n), Abs(d))
    IN  IF d < 0 THEN <<(-n) \div g, (-d) \div g>> ELSE <<n \div g, d \div g>>

RZero == <<0, 1>>
ROne == <<1, 1>>
RInt(k) == <<k, 1>>

\* Sum and product over the least common denominator and with the common
\* factors taken out before multiplying, so that the integers stay small.
RAdd(x, y) ==
    LET g == Gcd(x[2], y[2])
    IN  Rat(x[1] * (y[2] \div g) + y[1] * (x[2] \div g), (x[2] \div g) * y[2])
RMul(x, y) ==
    LET g == Gcd(Abs(x[1]), y[2])
        k == Gcd(Abs(y[1]), x[2])
    IN  Rat((x[1] \div g) * (y[1] \div k), (x[2] \div k) * (y[2] \div g))
RNeg(x) == <<-x[1], x[2]>>
RSub(x, y) == RAdd(x, RNeg(y))

\* abs(x) < 10**-14
BelowThreshold(x) == x[1] = 0

\* (-1) ** phase_changes
PhaseSign(phase_changes) == IF phase_changes % 2 = 0 THEN RInt(1) ELSE RInt(-1)

(***************************************************************************)
(* Integer bit operations.                                                 *)
(***************************************************************************)
RECURSIVE Pow2(_)
Pow2(k) == IF k = 0 THEN 1 ELSE 2 * Pow2(k - 1)

RECURSIVE BitAnd(_, _)
BitAnd(a, b) ==
    IF a = 0 \/ b = 0 THEN 0
    ELSE (a % 2) * (b % 2) + 2 * BitAnd(a \div 2, b \div 2)

RECURSIVE BitXor(_, _)
BitXor(a, b) ==
    IF a = 0 THEN b
    ELSE IF b = 0 THEN a
    ELSE ((a + b) % 2) + 2 * BitXor(a \div 2, b \div 2)

ShiftRight(x, k) == x \div Pow2(k)
ShiftLeft(x, k) == x * Pow2(k)

\* Brian Kernighan's population count.
RECURSIVE bitcount(_)
bitcount(x) == IF x > 0 THEN 1 + bitcount(BitAnd(x, x - 1)) ELSE 0

\* parity_check[k], k in 0..2*num_active_orbs: the bits of the spin orbitals
\* 0..k-1 (the k most significant bits of a determinant).
RECURSIVE ParitySum(_, _)
ParitySum(i, lo) == IF i < lo THEN 0 ELSE Pow2(i) + ParitySum(i - 1, lo)

parity_checkInclusive(num_active_orbs) ==
    [k \in 0..(2 * num_active_orbs) |->
        IF k = 2 * num_active_orbs
        THEN ParitySum(2 * num_active_orbs - 1, 0)
        ELSE ParitySum(2 * num_active_orbs - 1, 2 * num_active_orbs - 1 - k)]

parity_check(num_active_orbs) ==
    [k \in 0..(2 * num_active_orbs) |->
        ParitySum(2 * num_active_orbs - 1, 2 * num_active_orbs - k)]

Reverse(s) == [i \in 1..Len(s) |-> s[Len(s) + 1 - i]]


(***************************************************************************)
(* CI space (ci_info): idx2det is the ordered determinant list; det2idx is *)
(* its inverse.  A determinant is an integer of 2*num_active_orbs bits,    *)
(* spin orbital k being bit 2*num_active_orbs-1-k.                         *)
(***************************************************************************)
NumDets(ci) == Len(ci.idx2det)

\* det in det2idx
InDet2Idx(ci, det) == \E j \in 1..NumDets(ci) : ci.idx2det[j] = det

\* det2idx[det]
Det2Idx(ci, det) == CHOOSE j \in 1..NumDets(ci) : ci.idx2det[j] = det

(***************************************************************************)
(* apply_operator: the per-determinant part.                               *)
(***************************************************************************)
\* anni_idxs[::-1], create_idxs[::-1]
ReversedIdxs(idxs) == Reverse(idxs)

\* The occupation test of an orbital loop: an annihilation (killbit 0) on an
\* empty orbital, a creation (killbit 1) on an occupied one.
IsKillNever(det, orb_idx, num_active_orbs, killbit) == FALSE

IsKill(det, orb_idx, num_active_orbs, killbit) ==
    BitAnd(ShiftRight(det, 2 * num_active_orbs - 1 - orb_idx), 1) = killbit

\* One pass of "for orb_idx in anni_idxs" (killbit 0) or of "for orb_idx in
\* create_idxs" (killbit 1): test, flip the bit, count the occupied orbitals
\* below.  d is [is_killstate, det, phase_changes].
OrbStep(d, orb_idx, num_active_orbs, pchk, killbit) ==
    IF d.is_killstate THEN d
    ELSE IF IsKill(d.det, orb_idx, num_active_orbs, killbit)
    THEN [d EXCEPT !.is_killstate = TRUE]
    ELSE Let(BitXor(d.det, ShiftLeft(1, 2 * num_active_orbs - 1 - orb_idx)),
             LAMBDA det :
                 [is_killstate |-> FALSE, det |-> det,
                  phase_changes |->
                      d.phase_changes + bitcount(BitAnd(det, pchk[orb_idx]))])

OrbLoop(d, idxs, num_active_orbs, pchk, killbit) ==
    For(LAMBDA acc, k : OrbStep(acc, idxs[k], num_active_orbs, pchk, killbit),
        d, Len(idxs))

\* Lines 82-104: the annihilation loop, then the creation loop.
TransformDetCreateFirst(det, anni_idxs, create_idxs, num_active_orbs, pchk) ==
    OrbLoop(OrbLoop([is_killstate |-> FALSE, det |-> det, phase_changes |-> 0],
                    create_idxs, num_active_orbs, pchk, 1),
            anni_idxs, num_active_orbs, pchk, 0)

TransformDet(det, anni_idxs, create_idxs, num_active_orbs, pchk) ==
    OrbLoop(OrbLoop([is_killstate |-> FALSE, det |-> det, phase_changes |-> 0],
                    anni_idxs, num_active_orbs, pchk, 0),
            create_idxs, num_active_orbs, pchk, 1)

\* Lines 105-113: with do_unsafe a determinant outside det2idx is skipped.
SkipMissingAlways(do_unsafe, present) == ~present

SkipMissingNever(do_unsafe, present) == FALSE

SkipMissing(do_unsafe, present) == do_unsafe /\ ~present

\* The arguments of one call of apply_operator, apply_operator_SA or
\* add_operator_matrix, with the index lists reversed (lines 76-77).
ApplyArgs(state, anni_idxs, create_idxs, ci, pchk, do_unsafe, tmp_state, factor) ==
    [state |-> state, anni_idxs |-> ReversedIdxs(anni_idxs),
     create_idxs |-> ReversedIdxs(create_idxs), ci |-> ci,
     parity_check |-> pchk, do_unsafe |-> do_unsafe,
     tmp_state |-> tmp_state, factor |-> factor]

(***************************************************************************)
(* apply_operator (single state): state and tmp_state are object ids of    *)
(* the heap; tmp_state is returned.                                        *)
(***************************************************************************)
\* The body of "for i, det in enumerate(idx2det)".
apply_operator_body(acc, i, a) ==
    IF acc.err # "none" THEN acc
    ELSE IF BelowThreshold(acc.heap[a.state][i]) THEN acc
    ELSE Let(TransformDet(a.ci.idx2det[i], a.anni_idxs, a.create_idxs,
                          a.ci.num_active_orbs, a.parity_check),
             LAMBDA r :
                 IF r.is_killstate THEN acc
                 ELSE IF SkipMissing(a.do_unsafe, InDet2Idx(a.ci, r.det)) THEN acc
                 ELSE IF ~InDet2Idx(a.ci, r.det) THEN Raise("KeyError", acc.heap)
                 ELSE [acc EXCEPT
                          !.heap[a.tmp_state][Det2Idx(a.ci, r.det)] =
                              RAdd(@, RMul(RMul(a.factor, PhaseSign(r.phase_changes)),
                                           acc.heap[a.state][i]))])

apply_operator(h, state, anni_idxs, create_idxs, ci, pchk, do_unsafe, tmp_state, factor) ==
    Let(ApplyArgs(state, anni_idxs, create_idxs, ci, pchk, do_unsafe, tmp_state,
                  factor),
        LAMBDA a : For(LAMBDA acc, i : apply_operator_body(acc, i, a),
                       Ok(h, tmp_state), NumDets(ci)))

(***************************************************************************)
(* apply_operator_SA (state-averaged): state and tmp_state are batches     *)
(* (a sequence of rows); a column is skipped when no row exceeds the       *)
(* threshold, and one determinant transformation updates every row.        *)
(***************************************************************************)
\* "is_non_zero" of column i: no row of the batch exceeds the threshold.
ColumnIsZeroFirstRow(batch, i) == BelowThreshold(batch[1][i])

ColumnIsZero(batch, i) ==
    \A row \in 1..Len(batch) : BelowThreshold(batch[row][i])

apply_operator_SA_body(acc, i, a) ==
    IF acc.err # "none" THEN acc
    ELSE IF ColumnIsZero(acc.heap[a.state], i) THEN acc
    ELSE Let(TransformDet(a.ci.idx2det[i], a.anni_idxs, a.create_idxs,
                          a.ci.num_active_orbs, a.parity_check),
             LAMBDA r :
                 IF r.is_killstate THEN acc
                 ELSE IF SkipMissing(a.do_unsafe, InDet2Idx(a.ci, r.det)) THEN acc
                 ELSE IF ~InDet2Idx(a.ci, r.det) THEN Raise("KeyError", acc.heap)
                 ELSE Let(RMul(a.factor, PhaseSign(r.phase_changes)), LAMBDA val :
                      [acc EXCEPT !.heap[a.tmp_state] =
                          [row \in 1..Len(@) |->
                              [@[row] EXCEPT ![Det2Idx(a.ci, r.det)] =
                                  RAdd(@, RMul(val, acc.heap[a.state][row][i]))]]]))

apply_operator_SA(h, state, anni_idxs, create_idxs, ci, pchk, do_unsafe, tmp_state, factor) ==
    Let(ApplyArgs(state, anni_idxs, create_idxs, ci, pchk, do_unsafe, tmp_state,
                  factor),
        LAMBDA a : For(LAMBDA acc, i : apply_operator_SA_body(acc, i, a),
                       Ok(h, tmp_state), NumDets(ci)))

(***************************************************************************)
(* Fermionic operators: a sequence of <<label, coefficient>> (the ordered  *)
(* mapping op.operators); a label is a sequence of <<orbital, is_creation>>.*)
(* G1, G2, the operator sum and the folding live in operators.py and       *)
(* fermionic_operator.py, outside the source given; they follow the        *)
(* specification's data model.                                             *)
(***************************************************************************)
\* a^dagger_a a_i - a^dagger_i a_a
G1(i, a) ==
    << << << <<a, TRUE>>, <<i, FALSE>> >>, RInt(1) >>,
       << << <<i, TRUE>>, <<a, FALSE>> >>, RInt(-1) >> >>

\* a^dagger_a a^dagger_b a_j a_i - a^dagger_i a^dagger_j a_b a_a
G2(i, j, a, b) ==
    << << << <<a, TRUE>>, <<b, TRUE>>, <<j, FALSE>>, <<i, FALSE>> >>, RInt(1) >>,
       << << <<i, TRUE>>, <<j, TRUE>>, <<b, FALSE>>, <<a, FALSE>> >>, RInt(-1) >> >>

\* a^dagger_a a^dagger_b a^dagger_c a_k a_j a_i
\*     - a^dagger_i a^dagger_j a^dagger_k a_c a_b a_a
G3(i, j, k, a, b, c) ==
    << << << <<a, TRUE>>, <<b, TRUE>>, <<c, TRUE>>,
             <<k, FALSE>>, <<j, FALSE>>, <<i, FALSE>> >>, RInt(1) >>,
       << << <<i, TRUE>>, <<j, TRUE>>, <<k, TRUE>>,
             <<c, FALSE>>, <<b, FALSE>>, <<a, FALSE>> >>, RInt(-1) >> >>

\* theta * op
OpScale(c, op) == [k \in 1..Len(op) |-> <<op[k][1], RMul(c, op[k][2])>>]

\* T += op: coefficients of equal labels add, new labels are appended.
OpAddTerm(T, e) ==
    IF \E k \in 1..Len(T) : T[k][1] = e[1]
    THEN [k \in 1..Len(T) |->
             IF T[k][1] = e[1] THEN <<T[k][1], RAdd(T[k][2], e[2])>> ELSE T[k]]
    ELSE Append(T, e)

OpAdd(T, op) ==
    Let(op, LAMBDA o : For(LAMBDA acc, k : OpAddTerm(acc, o[k]), T, Len(o)))

\* op.get_folded_operator with no inactive orbital: the strings that touch
\* only active spin orbitals are kept.
get_folded_operator(op, num_inactive_orbs, num_active_orbs, num_virtual_orbs) ==
    SelectSeq(op, LAMBDA e :
        \A k \in 1..Len(e[1]) :
            /\ e[1][k][1] >= 2 * num_inactive_orbs
            /\ e[1][k][1] < 2 * (num_inactive_orbs + num_active_orbs))

\* The creation indices read from the first half of the label and the
\* annihilation indices from its second half.
LabelIdxsByPosition(fermi_label, dagger) ==
    Let(Len(fermi_label) \div 2, LAMBDA half :
        [k \in 1..half |-> fermi_label[IF dagger THEN k ELSE half + k][1]])

\* Lines 403-409: the creation (dagger TRUE) or annihilation indices of a
\* label, in label order.
LabelIdxs(fermi_label, dagger) ==
    Let(SelectSeq(fermi_label, LAMBDA f : f[2] = dagger),
        LAMBDA sel : [k \in 1..Len(sel) |-> sel[k][1]])

\* An element of the operators list: a fermionic operator, or a str.
OpElem(op) == [kind |-> "op", op |-> op]
StrElem(str) == [kind |-> str, op |-> <<>>]

(***************************************************************************)
(* numpy on the heap.                                                      *)
(***************************************************************************)
Alloc(h, val) == [heap |-> Append(h, val), id |-> Len(h) + 1]

\* np.copy(state), state.copy()
CopyArrayAlias(h, id) == [heap |-> h, id |-> id]

CopyArray(h, id) == Alloc(h, h[id])

ZeroVec(n) == [i \in 1..n |-> RZero]

\* An array of zeros of the shape of val (sa: a batch of rows).
ZeroArray(val, sa) ==
    IF sa THEN [row \in 1..Len(val) |-> ZeroVec(Len(val[row]))]
    ELSE ZeroVec(Len(val))

\* np.zeros_like(state)
ZerosLike(h, id, sa) == Alloc(h, ZeroArray(h[id], sa))

VAdd(u, v) ==
    Let(u, LAMBDA a : Let(v, LAMBDA b : [i \in 1..Len(a) |-> RAdd(a[i], b[i])]))
VScale(c, v) ==
    Let(c, LAMBDA a : Let(v, LAMBDA b : [i \in 1..Len(b) |-> RMul(a, b[i])]))

\* a + b and c * a on arrays of either shape
ArrAdd(u, v, sa) ==
    IF sa
    THEN Let(u, LAMBDA a : Let(v, LAMBDA b :
             [row \in 1..Len(a) |-> VAdd(a[row], b[row])]))
    ELSE VAdd(u, v)
ArrScale(c, v, sa) ==
    IF sa
    THEN Let(c, LAMBDA a : Let(v, LAMBDA b :
             [row \in 1..Len(b) |-> VScale(a, b[row])]))
    ELSE VScale(c, v)

(***************************************************************************)
(* np.sin, np.cos of k unit angles (sin 3/5, cos 4/5), by angle addition.  *)
(***************************************************************************)
SinCosStep(p) ==
    <<RAdd(RMul(p[1], <<4, 5>>), RMul(p[2], <<3, 5>>)),
      RSub(RMul(p[2], <<4, 5>>), RMul(p[1], <<3, 5>>))>>

SinCos(k) ==
    Let(For(LAMBDA p, j : SinCosStep(p), <<RZero, ROne>>, Abs(k)),
        LAMBDA p : IF k < 0 THEN <<RNeg(p[1]), p[2]>> ELSE p)

Sin(theta) == SinCos(theta)[1]
Cos(theta) == SinCos(theta)[2]

\* abs(theta) < 10**-14
SkipThetaNever(theta) == FALSE

SkipTheta(theta) == theta = 0

\* if dagger: theta = -theta
DaggerThetaSame(theta, dagger) == theta

DaggerTheta(theta, dagger) == IF dagger THEN -theta ELSE theta

Min(a, b) == IF a < b THEN a ELSE b

(***************************************************************************)
(* add_operator_matrix / build_operator_matrix: op_mat[j][i] is the entry  *)
(* at row det2idx[det] = j, column i.  The accumulator is [err, op_mat].   *)
(***************************************************************************)
\* op_mat[det2idx[det], i]: <<row, column>> of the entry that is updated.
MatrixEntryTransposed(det_idx, i) == <<i, det_idx>>

MatrixEntry(det_idx, i) == <<det_idx, i>>

add_operator_matrix_body(acc, i, a) ==
    IF acc.err # "none" THEN acc
    ELSE Let(TransformDet(a.ci.idx2det[i], a.anni_idxs, a.create_idxs,
                          a.ci.num_active_orbs, a.parity_check),
             LAMBDA r :
                 IF r.is_killstate THEN acc
                 ELSE IF SkipMissing(a.do_unsafe, InDet2Idx(a.ci, r.det)) THEN acc
                 ELSE IF ~InDet2Idx(a.ci, r.det)
                 THEN [acc EXCEPT !.err = "KeyError"]
                 ELSE Let(MatrixEntry(Det2Idx(a.ci, r.det), i), LAMBDA e :
                          [acc EXCEPT
                              !.op_mat[e[1]][e[2]] =
                                  RAdd(@, RMul(a.factor,
                                               PhaseSign(r.phase_changes)))]))

add_operator_matrix(op_mat, anni_idxs, create_idxs, ci, pchk, do_unsafe, factor) ==
    Let(ApplyArgs(0, anni_idxs, create_idxs, ci, pchk, do_unsafe, 0, factor),
        LAMBDA a : For(LAMBDA acc, i : add_operator_matrix_body(acc, i, a),
                       [err |-> "none", op_mat |-> op_mat], NumDets(ci)))

build_operator_matrix_body(acc, e, ci, pchk, do_unsafe) ==
    IF acc.err # "none" THEN acc
    ELSE add_operator_matrix(acc.op_mat, LabelIdxs(e[1], FALSE),
                             LabelIdxs(e[1], TRUE), ci, pchk, do_unsafe, e[2])

build_operator_matrix(op, ci, do_unsafe) ==
    Let(parity_check(ci.num_active_orbs), LAMBDA pchk :
        For(LAMBDA acc, k : build_operator_matrix_body(acc, op[k], ci, pchk, do_unsafe),
            [err |-> "none",
             op_mat |-> [j \in 1..NumDets(ci) |-> ZeroVec(NumDets(ci))]],
            Len(op)))

(***************************************************************************)
(* scipy.sparse.linalg.expm_multiply(A, B), for the matrices A (entries in *)
(* unit angles) with A^3 = -lambda^2 A for an integer lambda:              *)
(*   exp(A) B = B + sin(lambda)/lambda A B + (1 - cos(lambda))/lambda^2 A A B.*)
(* Any other matrix is outside the model ("unmodelled").                   *)
(***************************************************************************)
Dot(u, v) == For(LAMBDA acc, k : RAdd(acc, RMul(u[k], v[k])), RZero, Len(v))

MatVec(A, v) ==
    Let(A, LAMBDA M : Let(v, LAMBDA w : [j \in 1..Len(M) |-> Dot(M[j], w)]))

MatMul(A, B) ==
    Let(A, LAMBDA M : Let(B, LAMBDA N :
        [j \in 1..Len(M) |->
            [i \in 1..Len(M) |-> Dot(M[j], [k \in 1..Len(M) |-> N[k][i]])]]))

MatScale(c, A) == Let(A, LAMBDA M : [j \in 1..Len(M) |-> VScale(c, M[j])])

MaxLambda == 2 * MaxTheta + 2

ExpmLambdas(A) ==
    Let(MatMul(A, MatMul(A, A)), LAMBDA A3 :
        {l \in 1..MaxLambda : A3 = MatScale(RInt(-(l * l)), A)})

ExpmSeries(A, B, l) ==
    Let(MatVec(A, B), LAMBDA AB :
        VAdd(B, VAdd(VScale(RMul(Sin(l), <<1, l>>), AB),
                     VScale(RMul(RSub(ROne, Cos(l)), <<1, l * l>>), MatVec(A, AB)))))

expm_multiply(A, B) ==
    Let(A, LAMBDA M :
        IF \A j \in 1..Len(M) : M[j] = ZeroVec(Len(M))
        THEN [err |-> "none", val |-> B]
        ELSE Let(ExpmLambdas(M), LAMBDA ls :
                 IF ls = {}
                 THEN [err |-> "unmodelled", val |-> B]
                 ELSE [err |-> "none",
                       val |-> ExpmSeries(M, B, CHOOSE l \in ls : TRUE)]))

(***************************************************************************)
(* get_ucc_T and construct_ucc_state.  A structure is                      *)
(* [kind, excitation_operator_type, excitation_indices].                   *)
(***************************************************************************)
\* Tags get_ucc_T knows whose operators (G1_sa, G2_1_sa, G2_2_sa, G4..G6)
\* the model does not build.
UccTagsNotBuilt ==
    {"sa_single", "sa_double_1", "sa_double_2", "quadruple", "quintuple",
     "sextuple"}

\* The tags of the if/elif chains
UccTags == UccTagsNotBuilt \cup {"single", "double", "triple"}
UpsTags == {"sa_single", "single", "double"}

ZipLen(a, b, c) == Min(Len(a), Min(Len(b), Len(c)))

\* The body of "for theta, exc_type, x in zip(...)"; the accumulator is
\* [err, T].
get_ucc_T_body(acc, exc_type, x, theta, offset) ==
    IF acc.err # "none" THEN acc
    ELSE IF SkipTheta(theta) THEN acc
    ELSE IF exc_type \in UccTagsNotBuilt THEN [acc EXCEPT !.err = "unmodelled"]
    ELSE IF exc_type = "single"
    THEN [acc EXCEPT !.T =
             OpAdd(@, OpScale(RInt(theta),
                              G1(x[1] + 2 * offset, x[2] + 2 * offset)))]
    ELSE IF exc_type = "double"
    THEN [acc EXCEPT !.T =
             OpAdd(@, OpScale(RInt(theta),
                              G2(x[1] + 2 * offset, x[2] + 2 * offset,
                                 x[3] + 2 * offset, x[4] + 2 * offset)))]
    ELSE IF exc_type = "triple"
    THEN [acc EXCEPT !.T =
             OpAdd(@, OpScale(RInt(theta),
                              G3(x[1] + 2 * offset, x[2] + 2 * offset,
                                 x[3] + 2 * offset, x[4] + 2 * offset,
                                 x[5] + 2 * offset, x[6] + 2 * offset)))]
    ELSE [acc EXCEPT !.err = "ValueError"]

get_ucc_T(thetas, ucc_struct, offset) ==
    For(LAMBDA acc, k :
            get_ucc_T_body(acc, ucc_struct.excitation_operator_type[k],
                           ucc_struct.excitation_indices[k], thetas[k], offset),
        [err |-> "none", T |-> <<>>],
        ZipLen(ucc_struct.excitation_operator_type,
               ucc_struct.excitation_indices, thetas))

\* -Tmat if dagger else Tmat
ExpmArgNoNegation(Tmat, dagger) == Tmat

ExpmArg(Tmat, dagger) == IF dagger THEN MatScale(RInt(-1), Tmat) ELSE Tmat

construct_ucc_state(h, state, ci, thetas, ucc_struct, dagger) ==
    Let(get_ucc_T(thetas, ucc_struct, ci.space_extension_offset), LAMBDA T :
        IF T.err # "none" THEN Raise(T.err, h)
        ELSE Let(build_operator_matrix(T.T, ci, FALSE),
                 LAMBDA M :
                     IF M.err # "none" THEN Raise(M.err, h)
                     ELSE Let(expm_multiply(ExpmArg(M.op_mat, dagger), h[state]),
                              LAMBDA e :
                                  IF e.err # "none" THEN Raise(e.err, h)
                                  ELSE Let(Alloc(h, e.val),
                                           LAMBDA n : Ok(n.heap, n.id)))))

(***************************************************************************)
(* propagate_state / propagate_state_SA and construct_ups_state /          *)
(* construct_ups_state_SA.  The two variants differ in the array shape,    *)
(* in apply_operator vs apply_operator_SA and in the structures accepted   *)
(* at a unitary marker; sa selects the state-averaged variant.             *)
(* An element of operators is [kind, op]: kind "op" for a fermionic        *)
(* operator, otherwise the str itself ("U", "Ud", or another str).         *)
(***************************************************************************)
RECURSIVE propagate(_, _, _, _, _, _, _, _, _)

\* tmp + sin(theta) * propagate([T], tmp) + (1 - cos(theta)) * propagate([T, T], tmp)
AnalyticCoefsSwapped(theta) == <<RSub(ROne, Cos(theta)), Sin(theta)>>

AnalyticCoefs(theta) == <<Sin(theta), RSub(ROne, Cos(theta))>>

AnalyticSum(h, tmp, T1, T2, theta, sa) ==
    Let(AnalyticCoefs(theta), LAMBDA c :
        Let(Alloc(h, ArrAdd(ArrAdd(h[tmp], ArrScale(c[1], h[T1], sa), sa),
                            ArrScale(c[2], h[T2], sa), sa)),
            LAMBDA n : Ok(n.heap, n.id)))

AnalyticStep(sa, h, tmp, T, theta, ci, thetas, ups_struct) ==
    Let(propagate(sa, h, <<OpElem(T)>>, tmp, ci, thetas, ups_struct, FALSE, FALSE),
        LAMBDA r1 :
            IF r1.err # "none" THEN r1
            ELSE Let(propagate(sa, r1.heap, <<OpElem(T), OpElem(T)>>, tmp, ci,
                               thetas, ups_struct, FALSE, FALSE),
                     LAMBDA r2 :
                         IF r2.err # "none" THEN r2
                         ELSE AnalyticSum(r2.heap, tmp, r1.ret, r2.ret, theta, sa)))

\* x[::1] whatever the direction
OrderedForward(x, dagger) == x

\* x[::order]
Ordered(x, dagger) == IF dagger THEN Reverse(x) ELSE x

\* The body of the loop of construct_ups_state over zip(types[::order],
\* indices[::order], thetas[::order]); a holds the three ordered sequences,
\* acc.ret is tmp.
ups_body(acc, k, sa, a) ==
    IF acc.err # "none" THEN acc
    ELSE IF SkipTheta(a.ths[k]) THEN acc
    ELSE LET theta == DaggerTheta(a.ths[k], a.dagger)
             exc_type == a.types[k]
             x == a.indices[k]
             offset == a.ci.space_extension_offset
         IN  IF exc_type = "sa_single"
             THEN Let(AnalyticStep(sa, acc.heap, acc.ret,
                                   G1((x[1] + offset) * 2, (x[2] + offset) * 2),
                                   theta, a.ci, a.thetas, a.ups_struct),
                      LAMBDA s1 :
                          IF s1.err # "none" THEN s1
                          ELSE AnalyticStep(sa, s1.heap, s1.ret,
                                            G1((x[1] + offset) * 2 + 1,
                                               (x[2] + offset) * 2 + 1),
                                            theta, a.ci, a.thetas, a.ups_struct))
             ELSE IF exc_type = "single"
             THEN AnalyticStep(sa, acc.heap, acc.ret,
                               G1(x[1] + 2 * offset, x[2] + 2 * offset),
                               theta, a.ci, a.thetas, a.ups_struct)
             ELSE IF exc_type = "double"
             THEN AnalyticStep(sa, acc.heap, acc.ret,
                               G2(x[1] + 2 * offset, x[2] + 2 * offset,
                                  x[3] + 2 * offset, x[4] + 2 * offset),
                               theta, a.ci, a.thetas, a.ups_struct)
             ELSE Raise("ValueError", acc.heap)

UpsArgs(ci, thetas, ups_struct, dagger) ==
    [types |-> Ordered(ups_struct.excitation_operator_type, dagger),
     indices |-> Ordered(ups_struct.excitation_indices, dagger),
     ths |-> Ordered(thetas, dagger),
     dagger |-> dagger, ci |-> ci, thetas |-> thetas, ups_struct |-> ups_struct]

construct_ups(sa, h, state, ci, thetas, ups_struct, dagger) ==
    Let(UpsArgs(ci, thetas, ups_struct, dagger), LAMBDA a :
        Let(CopyArray(h, state), LAMBDA tmp :
            For(LAMBDA acc, k : ups_body(acc, k, sa, a),
                Ok(tmp.heap, tmp.id), ZipLen(a.types, a.indices, a.ths))))

\* operators[::-1]
OperatorOrderForward(operators) == operators

OperatorOrder(operators) == Reverse(operators)

\* if len(operators) == 0: return np.copy(state)
EmptyReturnZeros(h, state, sa) == ZerosLike(h, state, sa)

EmptyReturn(h, state, sa) == CopyArray(h, state)

\* tmp_state[:] = 0.0
ResetTmpMissing(h, tmp_state, sa) == h

ResetTmp(h, tmp_state, sa) == [h EXCEPT ![tmp_state] = ZeroArray(@, sa)]

\* Lines 401-423: one string of the folded operator is applied to new_state
\* and accumulated in tmp_state.
strings_body(acc, e, sa, new_state, a) ==
    IF acc.err # "none" THEN acc
    ELSE IF sa
    THEN apply_operator_SA(acc.heap, new_state, LabelIdxs(e[1], FALSE),
                           LabelIdxs(e[1], TRUE), a.ci, a.parity_check,
                           a.do_unsafe, a.tmp_state, e[2])
    ELSE apply_operator(acc.heap, new_state, LabelIdxs(e[1], FALSE),
                        LabelIdxs(e[1], TRUE), a.ci, a.parity_check,
                        a.do_unsafe, a.tmp_state, e[2])

\* Lines 394-424: a fermionic operator of the list.
fermionic_step(acc, op, sa, a) ==
    Let(IF a.do_folding
        THEN get_folded_operator(op, a.ci.num_inactive_orbs, a.ci.num_active_orbs,
                                 a.ci.num_virtual_orbs)
        ELSE op,
        LAMBDA op_folded :
            Let(For(LAMBDA r, k : strings_body(r, op_folded[k], sa, acc.ret, a),
                    Ok(ResetTmp(acc.heap, a.tmp_state, sa), a.tmp_state),
                    Len(op_folded)),
                LAMBDA r :
                    IF r.err # "none" THEN r
                    ELSE Let(CopyArray(r.heap, a.tmp_state),
                             LAMBDA c : Ok(c.heap, c.id))))

\* The isinstance chain at a unitary marker: propagate_state takes a
\* UpsStructure or a UccStructure, propagate_state_SA a UpsStructure only.
StructDispatchDefaultUps(wf_struct, sa) ==
    IF wf_struct.kind = "UCC" /\ ~sa THEN "UCC" ELSE "UPS"

StructDispatch(wf_struct, sa) ==
    IF wf_struct.kind = "UPS" THEN "UPS"
    ELSE IF wf_struct.kind = "UCC" /\ ~sa THEN "UCC"
    ELSE "TypeError"

\* The body of "for op in operators[::-1]"; acc.ret is new_state.
propagate_body(acc, op, sa, a) ==
    IF acc.err # "none" THEN acc
    ELSE IF op.kind = "op" THEN fermionic_step(acc, op.op, sa, a)
    ELSE IF op.kind \notin {"U", "Ud"} THEN Raise("ValueError", acc.heap)
    ELSE Let(StructDispatch(a.wf_struct, sa), LAMBDA d :
             IF d = "UPS"
             THEN construct_ups(sa, acc.heap, acc.ret, a.ci, a.thetas, a.wf_struct,
                                op.kind = "Ud")
             ELSE IF d = "UCC"
             THEN construct_ucc_state(acc.heap, acc.ret, a.ci, a.thetas,
                                      a.wf_struct, op.kind = "Ud")
             ELSE Raise("TypeError", acc.heap))

PropagateArgs(ci, thetas, wf_struct, do_folding, do_unsafe, tmp_state) ==
    [ci |-> ci, thetas |-> thetas, wf_struct |-> wf_struct,
     do_folding |-> do_folding, do_unsafe |-> do_unsafe, tmp_state |-> tmp_state,
     parity_check |-> parity_check(ci.num_active_orbs)]

propagate(sa, h, operators, state, ci, thetas, wf_struct, do_folding, do_unsafe) ==
    IF Len(operators) = 0
    THEN Let(EmptyReturn(h, state, sa), LAMBDA c : Ok(c.heap, c.id))
    ELSE Let(CopyArray(h, state), LAMBDA new_state :
         Let(ZerosLike(new_state.heap, state, sa), LAMBDA tmp_state :
         Let(PropagateArgs(ci, thetas, wf_struct, do_folding, do_unsafe,
                           tmp_state.id), LAMBDA a :
         Let(OperatorOrder(operators), LAMBDA ops :
             For(LAMBDA acc, k : propagate_body(acc, ops[k], sa, a),
                 Ok(tmp_state.heap, new_state.id), Len(ops))))))

propagate_state(h, operators, state, ci, thetas, wf_struct, do_folding, do_unsafe) ==
    propagate(FALSE, h, operators, state, ci, thetas, wf_struct, do_folding, do_unsafe)

propagate_state_SA(h, operators, state, ci, thetas, wf_struct, do_folding, do_unsafe) ==
    propagate(TRUE, h, operators, state, ci, thetas, wf_struct, do_folding, do_unsafe)

construct_ups_state(h, state, ci, thetas, ups_struct, dagger) ==
    construct_ups(FALSE, h, state, ci, thetas, ups_struct, dagger)

construct_ups_state_SA(h, state, ci, thetas, ups_struct, dagger) ==
    construct_ups(TRUE, h, state, ci, thetas, ups_struct, dagger)

(***************************************************************************)
(* expectation_value / expectation_value_SA.  bra is [ndim, val]: a vector *)
(* (ndim 1) or a two-dimensional array (ndim 2) of floats; the value of    *)
(* "bra @ op_ket" is a float when bra is a vector and an ndarray when bra  *)
(* has two dimensions.                                                     *)
(***************************************************************************)
\* bra @ op_ket
BraKet(bra, op_ket) ==
    IF bra.ndim = 1 THEN [ndim |-> 0, val |-> Dot(bra.val, op_ket)]
    ELSE [ndim |-> 1, val |-> MatVec(bra.val, op_ket)]

\* isinstance(val, float)
IsFloat(val) == val.ndim = 0

expectation_value(h, bra, operators, ket, ci, thetas, wf_struct, do_folding, do_unsafe) ==
    Let(propagate_state(h, operators, ket, ci, thetas, wf_struct, do_folding,
                        do_unsafe),
        LAMBDA op_ket :
            IF op_ket.err # "none" THEN op_ket
            ELSE Let(BraKet(bra, op_ket.heap[op_ket.ret]), LAMBDA val :
                     IF ~IsFloat(val) THEN Raise("ValueError", op_ket.heap)
                     ELSE Let(Alloc(op_ket.heap, val.val),
                              LAMBDA n : Ok(n.heap, n.id))))

\* np.einsum("ij,ij->", bra, op_ket)
Einsum(bra, op_ket) ==
    For(LAMBDA acc, k : RAdd(acc, Dot(bra[k], op_ket[k])), RZero, Len(bra))

\* val / len(bra)
AverageOverColumns(val, bra) == RMul(val, Rat(1, Len(bra[1])))

AverageOver(val, bra) == RMul(val, Rat(1, Len(bra)))

expectation_value_SA(h, bra, operators, ket, ci, thetas, wf_struct, do_folding) ==
    Let(propagate_state_SA(h, operators, ket, ci, thetas, wf_struct, do_folding,
                           FALSE),
        LAMBDA op_ket :
            IF op_ket.err # "none" THEN op_ket
            ELSE Let(Einsum(bra.val, op_ket.heap[op_ket.ret]), LAMBDA val :
                     Let(Alloc(op_ket.heap, AverageOver(val, bra.val)),
                         LAMBDA n : Ok(n.heap, n.id))))

(***************************************************************************)
(* propagate_unitary: the unitary of step idx (1-based) of a UPS structure.*)
(***************************************************************************)
propagate_unitary(h, state, idx, ci, thetas, ups_struct) ==
    LET exc_type == ups_struct.excitation_operator_type[idx]
        x == ups_struct.excitation_indices[idx]
        theta == thetas[idx]
        offset == ci.space_extension_offset
    IN  IF SkipTheta(theta)
        THEN Let(CopyArray(h, state), LAMBDA c : Ok(c.heap, c.id))
        ELSE IF exc_type = "sa_single"
        THEN Let(AnalyticStep(FALSE, h, state,
                              G1((x[1] + offset) * 2, (x[2] + offset) * 2), theta,
                              ci, thetas, ups_struct),
                 LAMBDA s1 :
                     IF s1.err # "none" THEN s1
                     ELSE AnalyticStep(FALSE, s1.heap, s1.ret,
                                       G1((x[1] + offset) * 2 + 1,
                                          (x[2] + offset) * 2 + 1),
                                       theta, ci, thetas, ups_struct))
        ELSE IF exc_type = "single"
        THEN AnalyticStep(FALSE, h, state, G1(x[1] + 2 * offset, x[2] + 2 * offset),
                          theta, ci, thetas, ups_struct)
        ELSE IF exc_type = "double"
        THEN AnalyticStep(FALSE, h, state,
                          G2(x[1] + 2 * offset, x[2] + 2 * offset,
                             x[3] + 2 * offset, x[4] + 2 * offset),
                          theta, ci, thetas, ups_struct)
        ELSE Raise("ValueError", h)

(***************************************************************************)
(* density_matrix.py.  Orbital indices start at 0; the active rdm1 and     *)
(* rdm2 and the integrals h_int and g_int are arrays indexed [p, q] and    *)
(* [p, q, r, s].                                                           *)
(***************************************************************************)
RDM1InactiveOne(p, q, num_inactive_orbs, num_active_orbs, rdm1) ==
    LET virt_start == num_inactive_orbs + num_active_orbs
    IN  IF p >= virt_start \/ q >= virt_start THEN 0
        ELSE IF p >= num_inactive_orbs /\ q >= num_inactive_orbs
        THEN rdm1[p - num_inactive_orbs, q - num_inactive_orbs]
        ELSE IF p < num_inactive_orbs /\ q < num_inactive_orbs
        THEN (IF p = q THEN 1 ELSE 0)
        ELSE 0

RDM1InactiveUpper(p, q, num_inactive_orbs, num_active_orbs, rdm1) ==
    LET virt_start == num_inactive_orbs + num_active_orbs
    IN  IF p >= virt_start \/ q >= virt_start THEN 0
        ELSE IF p >= num_inactive_orbs /\ q >= num_inactive_orbs
        THEN rdm1[p - num_inactive_orbs, q - num_inactive_orbs]
        ELSE IF p < num_inactive_orbs /\ q < num_inactive_orbs
        THEN (IF p = q THEN 2 ELSE 0)
        ELSE IF p < q THEN 2 ELSE 0

RDM1(p, q, num_inactive_orbs, num_active_orbs, rdm1) ==
    LET virt_start == num_inactive_orbs + num_active_orbs
    IN  IF p >= virt_start \/ q >= virt_start THEN 0
        ELSE IF p >= num_inactive_orbs /\ q >= num_inactive_orbs
        THEN rdm1[p - num_inactive_orbs, q - num_inactive_orbs]
        ELSE IF p < num_inactive_orbs /\ q < num_inactive_orbs
        THEN (IF p = q THEN 2 ELSE 0)
        ELSE 0

\* The branch of the all-inactive indices (lines 127-134).
RDM2InactiveNoExchange(p, q, r, s) ==
    IF p = q /\ r = s THEN 4 ELSE 0

RDM2Inactive(p, q, r, s) ==
    (IF p = q /\ r = s THEN 4 ELSE 0) + (IF q = r /\ p = s THEN -2 ELSE 0)

\* The branch of the "uijv type index" (lines 106-112).
RDM2ExchangePlus(p, q, r, s, num_inactive_orbs, rdm1) ==
    IF q = r THEN rdm1[p - num_inactive_orbs, s - num_inactive_orbs] ELSE 0

RDM2Exchange(p, q, r, s, num_inactive_orbs, rdm1) ==
    IF q = r THEN -rdm1[p - num_inactive_orbs, s - num_inactive_orbs] ELSE 0

RDM2(p, q, r, s, num_inactive_orbs, num_active_orbs, rdm1, rdm2) ==
    LET virt_start == num_inactive_orbs + num_active_orbs
        ni == num_inactive_orbs
    IN  IF p >= virt_start \/ q >= virt_start \/ r >= virt_start \/ s >= virt_start
        THEN 0
        ELSE IF p >= ni /\ q >= ni /\ r >= ni /\ s >= ni
        THEN rdm2[p - ni, q - ni, r - ni, s - ni]
        ELSE IF p < ni /\ q >= ni /\ r >= ni /\ s < ni
        THEN (IF p = s THEN -rdm1[q - ni, r - ni] ELSE 0)
        ELSE IF p >= ni /\ q < ni /\ r < ni /\ s >= ni
        THEN RDM2Exchange(p, q, r, s, ni, rdm1)
        ELSE IF p >= ni /\ q >= ni /\ r < ni /\ s < ni
        THEN (IF r = s THEN 2 * rdm1[p - ni, q - ni] ELSE 0)
        ELSE IF p < ni /\ q < ni /\ r >= ni /\ s >= ni
        THEN (IF p = q THEN 2 * rdm1[r - ni, s - ni] ELSE 0)
        ELSE IF p < ni /\ q < ni /\ r < ni /\ s < ni
        THEN RDM2Inactive(p, q, r, s)
        ELSE 0

\* "for p in range(n): for q in range(n): acc = Body(acc, p, q)"
For2(Body(_, _, _), init, n) ==
    For(LAMBDA a, i : For(LAMBDA b, j : Body(b, i - 1, j - 1), a, n), init, n)

\* The factor 1 / 2 of the two-electron sum
TwoElectronFactorOne == ROne

TwoElectronFactor == Rat(1, 2)

get_electronic_energy(h_int, g_int, num_inactive_orbs, num_active_orbs, rdm1, rdm2) ==
    Let(num_inactive_orbs + num_active_orbs, LAMBDA n :
        Let(For2(LAMBDA energy, p, q :
                     RAdd(energy,
                          RInt(h_int[p, q]
                               * RDM1(p, q, num_inactive_orbs, num_active_orbs, rdm1))),
                 RZero, n),
            LAMBDA e1 :
                For2(LAMBDA e2, p, q :
                         For2(LAMBDA energy, r, s :
                                  RAdd(energy,
                                       RMul(RMul(TwoElectronFactor,
                                                 RInt(g_int[p, q, r, s])),
                                            RInt(RDM2(p, q, r, s, num_inactive_orbs,
                                                      num_active_orbs, rdm1, rdm2)))),
                              e2, n),
                     e1, n)))

\* "for p in range(n): for q in range(n): for r in range(n):
\*      acc = Body(acc, p, q, r)"
For3(Body(_, _, _, _), init, n) ==
    For(LAMBDA a, i : For2(LAMBDA b, j, k : Body(b, i - 1, j, k), a, n), init, n)

\* "acc += c * x * y" on floats
AddTerm(acc, c, x, y) == RAdd(acc, RMul(c, RInt(x * y)))

\* The coefficients of the 1-electron and of the 2-electron terms of
\* get_orbital_gradient (lines 212-213 and 218-229).
GradientOneElectron == RInt(2)
GradientTwoElectron == ROne

\* The 1-electron contribution to gradient[idx] for the pair (m, n)
\* (lines 211-213)
gradient_one_electron(acc0, h_int, m, n, num_inactive_orbs, num_active_orbs, rdm1) ==
    For(LAMBDA acc, k :
            AddTerm(AddTerm(acc, GradientOneElectron, h_int[n, k - 1],
                            RDM1(m, k - 1, num_inactive_orbs, num_active_orbs, rdm1)),
                    RNeg(GradientOneElectron), h_int[k - 1, m],
                    RDM1(k - 1, n, num_inactive_orbs, num_active_orbs, rdm1)),
        acc0, num_inactive_orbs + num_active_orbs)

\* The 2-electron contribution (lines 215-229)
gradient_two_electron(acc0, g_int, m, n, num_inactive_orbs, num_active_orbs, rdm1, rdm2) ==
    For3(LAMBDA acc, p, q, r :
             AddTerm(AddTerm(AddTerm(AddTerm(acc,
                 GradientTwoElectron, g_int[n, p, q, r],
                 RDM2(m, p, q, r, num_inactive_orbs, num_active_orbs, rdm1, rdm2)),
                 RNeg(GradientTwoElectron), g_int[p, m, q, r],
                 RDM2(p, n, q, r, num_inactive_orbs, num_active_orbs, rdm1, rdm2)),
                 RNeg(GradientTwoElectron), g_int[m, p, q, r],
                 RDM2(n, p, q, r, num_inactive_orbs, num_active_orbs, rdm1, rdm2)),
                 GradientTwoElectron, g_int[p, n, q, r],
                 RDM2(p, m, q, r, num_inactive_orbs, num_active_orbs, rdm1, rdm2)),
         acc0, num_inactive_orbs + num_active_orbs)

\* gradient[idx] of get_orbital_gradient for the pair (m, n), from 0
gradient_entry(h_int, g_int, m, n, num_inactive_orbs, num_active_orbs, rdm1, rdm2) ==
    gradient_two_electron(
        gradient_one_electron(RZero, h_int, m, n, num_inactive_orbs,
                              num_active_orbs, rdm1),
        g_int, m, n, num_inactive_orbs, num_active_orbs, rdm1, rdm2)

get_orbital_gradient(h_int, g_int, kappa_idx, num_inactive_orbs, num_active_orbs, rdm1, rdm2) ==
    [idx \in 1..Len(kappa_idx) |->
        gradient_entry(h_int, g_int, kappa_idx[idx][1], kappa_idx[idx][2],
                       num_inactive_orbs, num_active_orbs, rdm1, rdm2)]

\* The coefficients of get_orbital_gradient_response: 1 on the 1-electron
\* terms (lines 264-265) and 1 / 2 on the 2-electron terms (270-293).
ResponseOneElectronTwo == RInt(2)

ResponseOneElectron == ROne

ResponseTwoElectron == Rat(1, 2)

\* A float times 2 ** (-1 / 2): the irrational factor is kept symbolic.
ScaleNone(x) == [coef |-> x, unit |-> "1"]

ScaleInvSqrt2(x) == [coef |-> x, unit |-> "2^(-1/2)"]

\* The 1-electron contribution to gradient[idx] (or gradient[idx + shift])
\* with the loop variables m and n (lines 263-265 and 297-299)
response_one_electron(acc0, h_int, m, n, num_inactive_orbs, num_active_orbs, rdm1) ==
    For(LAMBDA acc, k :
            AddTerm(AddTerm(acc, ResponseOneElectron, h_int[n, k - 1],
                            RDM1(m, k - 1, num_inactive_orbs, num_active_orbs, rdm1)),
                    RNeg(ResponseOneElectron), h_int[k - 1, m],
                    RDM1(k - 1, n, num_inactive_orbs, num_active_orbs, rdm1)),
        acc0, num_inactive_orbs + num_active_orbs)

\* The 2-electron contribution (lines 267-293 and 301-327)
response_two_electron(acc0, g_int, m, n, num_inactive_orbs, num_active_orbs, rdm1, rdm2) ==
    For3(LAMBDA acc, p, q, r :
             AddTerm(AddTerm(AddTerm(AddTerm(acc,
                 ResponseTwoElectron, g_int[n, p, q, r],
                 RDM2(m, p, q, r, num_inactive_orbs, num_active_orbs, rdm1, rdm2)),
                 RNeg(ResponseTwoElectron), g_int[p, m, q, r],
                 RDM2(p, n, q, r, num_inactive_orbs, num_active_orbs, rdm1, rdm2)),
                 RNeg(ResponseTwoElectron), g_int[m, p, q, r],
                 RDM2(n, p, q, r, num_inactive_orbs, num_active_orbs, rdm1, rdm2)),
                 ResponseTwoElectron, g_int[p, n, q, r],
                 RDM2(p, m, q, r, num_inactive_orbs, num_active_orbs, rdm1, rdm2)),
         acc0, num_inactive_orbs + num_active_orbs)

\* gradient[idx] (or gradient[idx + shift]) before the scaling, from 0
response_entry(h_int, g_int, m, n, num_inactive_orbs, num_active_orbs, rdm1, rdm2) ==
    response_two_electron(
        response_one_electron(RZero, h_int, m, n, num_inactive_orbs,
                              num_active_orbs, rdm1),
        g_int, m, n, num_inactive_orbs, num_active_orbs, rdm1, rdm2)

\* The second loop unpacks the pair as (n, m) (line 295).
SecondBlockPairSame(pair) == pair

SecondBlockPair(pair) == <<pair[2], pair[1]>>

get_orbital_gradient_response(h_int, g_int, kappa_idx, ni, na, rdm1, rdm2) ==
    LET shift == Len(kappa_idx)
    IN  [i \in 1..(2 * shift) |->
            LET mn == IF i <= shift THEN kappa_idx[i]
                      ELSE SecondBlockPair(kappa_idx[i - shift])
            IN  ScaleInvSqrt2(response_entry(h_int, g_int, mn[1], mn[2],
                                             ni, na,
                                             rdm1, rdm2))]

\* sigma[idx1, idx2] for the pairs (n, m) and (p, q), before the factor
sigma_entry(n, m, p, q, num_inactive_orbs, num_active_orbs, rdm1) ==
    (IF p = n THEN RDM1(m, q, num_inactive_orbs, num_active_orbs, rdm1) ELSE 0)
    - (IF m = q THEN RDM1(p, n, num_inactive_orbs, num_active_orbs, rdm1) ELSE 0)

\* "-1 / 2 * sigma"
SigmaFactorPlus == Rat(1, 2)

SigmaFactor == Rat(-1, 2)

Matrix(rows, cols, Entry(_, _)) ==
    [shape |-> <<rows, cols>>,
     data |-> [i \in 1..rows, j \in 1..cols |-> Entry(i, j)]]

get_orbital_response_metric_sigma(kappa_idx, num_inactive_orbs, num_active_orbs, rdm1) ==
    Matrix(Len(kappa_idx), Len(kappa_idx), LAMBDA idx1, idx2 :
        RMul(SigmaFactor,
             RInt(sigma_entry(kappa_idx[idx1][1], kappa_idx[idx1][2],
                              kappa_idx[idx2][1], kappa_idx[idx2][2],
                              num_inactive_orbs, num_active_orbs, rdm1))))

\* A1e[idx1, idx2] of get_orbital_response_hessian_block for the pairs
\* (t, u) and (m, n) (lines 498-504)
hessian_A1e(h, t, u, m, n, ni, na, rdm1) ==
    For(LAMBDA acc, k :
            acc - (IF m = u THEN h[n, k - 1] * RDM1(t, k - 1, ni, na, rdm1) ELSE 0)
                - (IF t = n THEN h[k - 1, m] * RDM1(k - 1, u, ni, na, rdm1) ELSE 0),
        h[n, t] * RDM1(m, u, ni, na, rdm1) + h[u, m] * RDM1(t, n, ni, na, rdm1),
        ni + na)

\* The twelve terms of the loop over p and q (lines 506-543)
hessian_A2e_two(g, t, u, m, n, ni, na, rdm1, rdm2) ==
    For2(LAMBDA acc, p, q :
             acc + g[n, t, p, q] * RDM2(m, u, p, q, ni, na, rdm1, rdm2)
                 - g[n, p, u, q] * RDM2(m, p, t, q, ni, na, rdm1, rdm2)
                 + g[n, p, q, t] * RDM2(m, p, q, u, ni, na, rdm1, rdm2)
                 + g[u, m, p, q] * RDM2(t, n, p, q, ni, na, rdm1, rdm2)
                 + g[p, m, u, q] * RDM2(p, n, t, q, ni, na, rdm1, rdm2)
                 - g[p, m, q, t] * RDM2(p, n, q, u, ni, na, rdm1, rdm2)
                 - g[u, p, n, q] * RDM2(t, p, m, q, ni, na, rdm1, rdm2)
                 + g[p, t, n, q] * RDM2(p, u, m, q, ni, na, rdm1, rdm2)
                 + g[p, q, n, t] * RDM2(p, q, m, u, ni, na, rdm1, rdm2)
                 + g[u, p, q, m] * RDM2(t, p, q, n, ni, na, rdm1, rdm2)
                 - g[p, t, q, m] * RDM2(p, u, q, n, ni, na, rdm1, rdm2)
                 + g[p, q, u, m] * RDM2(p, q, t, n, ni, na, rdm1, rdm2),
         0, ni + na)

\* The four conditional terms of the loop over p, q and r (lines 544-562)
hessian_A2e_three(g, t, u, m, n, ni, na, rdm1, rdm2) ==
    For3(LAMBDA acc, p, q, r :
             acc - (IF m = u
                    THEN g[n, p, q, r] * RDM2(t, p, q, r, ni, na, rdm1, rdm2)
                         + g[p, q, n, r] * RDM2(p, q, t, r, ni, na, rdm1, rdm2)
                    ELSE 0)
                 - (IF t = n
                    THEN g[p, m, q, r] * RDM2(p, u, q, r, ni, na, rdm1, rdm2)
                         + g[p, q, r, m] * RDM2(p, q, r, u, ni, na, rdm1, rdm2)
                    ELSE 0),
         0, ni + na)

\* "1 / 2 * A1e + 1 / 4 * A2e"
hessian_entry(h, g, tu, mn, ni, na, rdm1, rdm2) ==
    RAdd(RMul(Rat(1, 2),
              RInt(hessian_A1e(h, tu[1], tu[2], mn[1], mn[2], ni, na, rdm1))),
         RMul(Rat(1, 4),
              RInt(hessian_A2e_two(g, tu[1], tu[2], mn[1], mn[2], ni, na, rdm1, rdm2)
                   + hessian_A2e_three(g, tu[1], tu[2], mn[1], mn[2], ni, na,
                                       rdm1, rdm2))))

\* The shape of A1e and A2e: "np.zeros((len(kappa_idx1), len(kappa_idx1)))"
\* (lines 493-494)
AccumulatorShape(kappa_idx1, kappa_idx2) == <<Len(kappa_idx1), Len(kappa_idx1)>>

\* The writes A1e[idx1, idx2] and A2e[idx1, idx2] of the two loops
\* (lines 495-496), with indices from 1
HessianWrites(kappa_idx1, kappa_idx2) ==
    (1..Len(kappa_idx1)) \X (1..Len(kappa_idx2))

InsideShape(shape, w) == w[1] <= shape[1] /\ w[2] <= shape[2]

\* What a write outside the accumulator does under nb.jit(nopython=True):
\* an IndexError where bounds are checked, an overwrite of other memory
\* where they are not.
OutOfBoundsOutcomes == {"IndexError", "out_of_bounds_write"}

\* The block when every write is inside the accumulator: entries that no
\* write reaches keep the 0 of np.zeros.
get_orbital_response_hessian_block(h, g, kappa_idx1, kappa_idx2, ni, na, rdm1, rdm2) ==
    LET shape == AccumulatorShape(kappa_idx1, kappa_idx2)
    IN  Matrix(shape[1], shape[2], LAMBDA idx1, idx2 :
            IF <<idx1, idx2>> \in HessianWrites(kappa_idx1, kappa_idx2)
            THEN hessian_entry(h, g, kappa_idx1[idx1], kappa_idx2[idx2],
                               ni, na, rdm1, rdm2)
            ELSE RZero)

(***************************************************************************)
(* The inputs a caller draws.                                              *)
(***************************************************************************)
\* Two electrons in two spatial orbitals (spin orbitals 0..3), S_z = 0:
\* the full space, and a truncated space that the excitations can leave.
CIFull ==
    [idx2det |-> <<12, 9, 6, 3>>, num_active_orbs |-> 2, num_inactive_orbs |-> 0,
     num_virtual_orbs |-> 0, space_extension_offset |-> 0]

CITruncated ==
    [idx2det |-> <<12, 6, 9>>, num_active_orbs |-> 2, num_inactive_orbs |-> 0,
     num_virtual_orbs |-> 0, space_extension_offset |-> 0]

\* Three electrons in four spatial orbitals (spin orbitals 0..7): the
\* determinant of the spin orbitals 0, 1, 2 and its triple excitation to the
\* spin orbitals 3, 4, 6.
CITriple ==
    [idx2det |-> <<224, 26>>, num_active_orbs |-> 4, num_inactive_orbs |-> 0,
     num_virtual_orbs |-> 0, space_extension_offset |-> 0]

CISpaces == {CIFull, CITruncated, CITriple}

Orbitals == 0..3

\* State vectors: integer amplitudes from -1 to MaxAmp, at most MaxSupport of
\* them nonzero.
Vectors(n) ==
    {[i \in 1..n |-> RInt(f[i])] :
        f \in {g \in [1..n -> (-1)..MaxAmp] :
                  Cardinality({i \in 1..n : g[i] # 0}) <= MaxSupport}}

\* State-averaged batches of two rows, each with at most one determinant.
Batches(n) ==
    {<<v, Reverse(v)>> :
        v \in {w \in Vectors(n) : Cardinality({i \in 1..n : w[i] # RZero}) <= 1}}

\* (anni_idxs, create_idxs) of the direct calls of apply_operator
SingleStrings == {<<<<p>>, <<q>>>> : p \in Orbitals, q \in Orbitals}

DoubleStrings ==
    {<<a, c>> : a \in {<<0, 1>>, <<1, 0>>, <<0, 0>>},
                c \in {<<2, 3>>, <<3, 2>>, <<1, 2>>}}

OtherStrings == {<<<<>>, <<>>>>, <<<<0>>, <<>>>>, <<<<>>, <<2>>>>}

Strings == SingleStrings \cup DoubleStrings \cup OtherStrings

Factors == {RInt(-2)}

\* Fermionic operators handed to propagate_state
NumberOp == << << << <<0, TRUE>>, <<0, FALSE>> >>, RInt(2) >> >>

FermiOps == {G1(0, 2), G1(0, 1), G2(0, 1, 2, 3), NumberOp}

FermiElems == {OpElem(op) : op \in FermiOps}

\* Operators handed to build_operator_matrix: those, and two sums whose
\* strings meet in the same matrix entries.
NumberOpBeta == << << << <<1, TRUE>>, <<1, FALSE>> >>, RInt(1) >> >>

\* Labels that are not written creations first: a^dagger_2 a_0 a^dagger_3 a_1
\* and a_0 a_1 a^dagger_2 a^dagger_3.
InterleavedOp ==
    << << << <<2, TRUE>>, <<0, FALSE>>, <<3, TRUE>>, <<1, FALSE>> >>, RInt(1) >> >>

AnnihilationFirstOp ==
    << << << <<0, FALSE>>, <<1, FALSE>>, <<2, TRUE>>, <<3, TRUE>> >>, RInt(1) >> >>

InterleavedOps == {InterleavedOp, AnnihilationFirstOp}

MatrixOps ==
    FermiOps \cup {OpAdd(NumberOp, NumberOpBeta), OpAdd(G1(0, 2), G1(1, 3))}
             \cup InterleavedOps

FermiSeqs ==
    {<<>>} \cup {<<e>> : e \in FermiElems}
           \cup {<<e, f>> : e \in FermiElems, f \in FermiElems}
           \cup {<<e, e, e>> : e \in FermiElems}
           \cup {<<OpElem(op)>> : op \in InterleavedOps}

MarkerSeqs ==
    {<<StrElem("U")>>, <<StrElem("X")>>,
     <<>>, <<StrElem("Ud"), StrElem("U")>>,
     <<StrElem("U"), OpElem(G1(0, 2))>>,
     <<OpElem(G2(0, 1, 2, 3)), StrElem("Ud")>>}

\* Operator sequences of the expectation values
ExpectationSeqs ==
    {<<>>, <<OpElem(G1(0, 2))>>, <<OpElem(NumberOp)>>, <<StrElem("U")>>,
     <<StrElem("Ud"), OpElem(NumberOp), StrElem("U")>>}

\* The bras of ndim dimensions: vectors and two-dimensional arrays for
\* expectation_value, batches as large as the ket for expectation_value_SA.
Bras(n, sa, ndim) ==
    LET vs == {v \in Vectors(n) : v[1] = ROne}
    IN  IF sa
        THEN IF ndim = 2 THEN {[ndim |-> 2, val |-> <<v, v>>] : v \in vs} ELSE {}
        ELSE IF ndim = 1 THEN {[ndim |-> 1, val |-> v] : v \in vs}
             ELSE {[ndim |-> 2, val |-> <<ZeroVec(n), v>>] :
                      v \in {w \in vs : w[n] = ROne}}

\* The inputs of density_matrix.py: the numbers of inactive, active and
\* virtual orbitals, and arrays over range(n)
Partitions ==
    {[num_inactive_orbs |-> i, num_active_orbs |-> a, num_virtual_orbs |-> v] :
        i \in 0..MaxFrozen, a \in 0..MaxActive, v \in 0..MaxFrozen}

NumOrbs(part) ==
    part.num_inactive_orbs + part.num_active_orbs + part.num_virtual_orbs

Idx(n) == 0..(n - 1)

\* A matrix with diagonal d + p and off-diagonal o * (p + q), plus k above
\* the diagonal: symmetric when k = 0.
MatrixOf(n, d, o, k) ==
    [p \in Idx(n), q \in Idx(n) |->
        IF p = q THEN d + p ELSE o * (p + q) + (IF p < q THEN k ELSE 0)]

\* A four-index array w * (p r + q s + 1) + k * (p + 2 q + 3 r + 5 s): for
\* k = 0 it has the symmetries pqrs = rspq = qpsr = srqp and no other.
TensorOf(n, w, k) ==
    [p \in Idx(n), q \in Idx(n), r \in Idx(n), s \in Idx(n) |->
        w * (p * r + q * s + 1) + k * (p + 2 * q + 3 * r + 5 * s)]

\* Kappa index lists: up to MaxKappa pairs of orbitals below n
KappaPairs(n) ==
    {pair \in {<<0, 1>>, <<1, 2>>, <<2, 0>>, <<2, 1>>} : pair[1] < n /\ pair[2] < n}

KappaLists(n) ==
    UNION {[1..k -> KappaPairs(n)] : k \in 0..MaxKappa}

\* The lists of the Hessian block: a row list and a column list
HessianPairs(n) == KappaPairs(n) \cap {<<0, 1>>, <<1, 2>>}

HessianLists(n) ==
    UNION {[1..k -> HessianPairs(n)] : k \in 0..MaxKappa}

Rdm1s(n) == {MatrixOf(n, 1, 0, 0), MatrixOf(n, 2, 1, 0), MatrixOf(n, 1, 1, 1)}
Rdm2s(n) == {TensorOf(n, 0, 0), TensorOf(n, 1, 0), TensorOf(n, 1, 1)}
HInts(n) == {MatrixOf(n, 2, 0, 0), MatrixOf(n, 2, 1, 1)}
GInts(n) == {TensorOf(n, 0, 0), TensorOf(n, 1, 1)}

\* Ansatz structures
Struct(kind, types, indices) ==
    [kind |-> kind, excitation_operator_type |-> types,
     excitation_indices |-> indices]

UpsSingle == Struct("UPS", <<"single">>, <<<<0, 2>>>>)
UpsSingleDouble ==
    Struct("UPS", <<"single", "double">>, <<<<0, 2>>, <<0, 1, 2, 3>>>>)
UpsSaSingle == Struct("UPS", <<"sa_single">>, <<<<0, 1>>>>)
UccSingles == Struct("UCC", <<"single", "single">>, <<<<0, 2>>, <<1, 3>>>>)
OtherStruct == Struct("other", <<>>, <<>>)
\* Structures with a tag no routine knows
UpsOtherTag == Struct("UPS", <<"single", "other">>, <<<<0, 2>>, <<1, 3>>>>)
UccOtherTag == Struct("UCC", <<"other", "single">>, <<<<0, 2>>, <<1, 3>>>>)

NumSteps(wf_struct) == Len(wf_struct.excitation_operator_type)

ThetaValues == 0..MaxTheta

ThetaVecs(n) == [1..n -> ThetaValues]

Structs ==
    {UpsSingleDouble, UpsSaSingle, UccSingles, OtherStruct, UpsOtherTag, UccOtherTag}

\* (structure, thetas): one theta per step, and for the one-step structure
\* also the vectors with one entry more than it has steps.
StructThetasSmall ==
    UNION {{<<w, t>> : t \in ThetaVecs(NumSteps(w))} : w \in Structs}
        \cup {<<UpsSingle, Append(t, MaxTheta)>> : t \in ThetaVecs(1)}

\* A triple excitation, in the two kinds of structure
UccTriple == Struct("UCC", <<"triple">>, <<<<0, 1, 2, 4, 3, 6>>>>)
UpsTriple == Struct("UPS", <<"triple">>, <<<<0, 1, 2, 4, 3, 6>>>>)

TripleStructs == {UccTriple, UpsTriple}

\* The structures whose spin orbitals the space ci has
StructThetas(ci) ==
    StructThetasSmall
        \cup (IF ci.num_active_orbs >= 4
              THEN UNION {{<<w, t>> : t \in ThetaVecs(1)} : w \in TripleStructs}
              ELSE {})

(***************************************************************************)
(* The state machine: a caller owns one array (object 1 of heap: a state   *)
(* vector, or a batch when is_SA), calls one routine with arguments it     *)
(* draws, and gets back an array (ret.id, ret.val) or an error (ret.err).  *)
(* heap keeps the caller's array as the call left it.                      *)
(***************************************************************************)
NoCall ==
    [fn |-> "none", operators |-> <<>>, thetas |-> <<>>, wf_struct |-> OtherStruct,
     do_folding |-> FALSE, do_unsafe |-> FALSE, dagger |-> FALSE, idx |-> 0,
     anni_idxs |-> <<>>, create_idxs |-> <<>>, factor |-> RZero,
     bra |-> [ndim |-> 1, val |-> <<>>], pqrs |-> <<>>,
     kappa_idx |-> <<>>, kappa_idx2 |-> <<>>]

NoRet == [err |-> "none", id |-> 0, val |-> <<>>]

Init ==
    /\ ci_info \in CISpaces
    /\ \/ is_SA = FALSE /\ heap \in {<<v>> : v \in Vectors(NumDets(ci_info))}
       \/ is_SA = TRUE /\ heap \in {<<b>> : b \in Batches(NumDets(ci_info))}
    /\ call = NoCall
    /\ ret = NoRet
    /\ pc = "ready"

\* The call c returned r = [err, heap, ret].
Returns(c, r) ==
    /\ r.err # "unmodelled"
    /\ heap' = <<r.heap[1]>>
    /\ ret' = IF r.err = "none"
              THEN [err |-> "none", id |-> r.ret, val |-> r.heap[r.ret]]
              ELSE [err |-> r.err, id |-> 0, val |-> <<>>]
    /\ call' = c
    /\ pc' = "returned"
    /\ UNCHANGED <<ci_info, is_SA>>

\* apply_operator / apply_operator_SA with a zeroed tmp_state (object 2)
ApplyOperator ==
    /\ pc = "ready"
    /\ \E s \in Strings, factor \in Factors, do_unsafe \in BOOLEAN :
          \E tmp_state \in {ZerosLike(heap, 1, is_SA)},
             pchk \in {parity_check(ci_info.num_active_orbs)} :
             \E r \in {IF is_SA
                       THEN apply_operator_SA(tmp_state.heap, 1, s[1], s[2], ci_info,
                                              pchk, do_unsafe, tmp_state.id, factor)
                       ELSE apply_operator(tmp_state.heap, 1, s[1], s[2], ci_info,
                                           pchk, do_unsafe, tmp_state.id, factor)} :
                Returns([NoCall EXCEPT !.fn = "apply_operator", !.anni_idxs = s[1],
                                       !.create_idxs = s[2], !.factor = factor,
                                       !.do_unsafe = do_unsafe], r)

\* propagate_state / propagate_state_SA on fermionic operators only
PropagateFermionic ==
    /\ pc = "ready"
    /\ \E ops \in FermiSeqs, do_unsafe \in BOOLEAN,
          v \in {<<UpsSingle, FALSE>>, <<OtherStruct, TRUE>>} :
          \E r \in {propagate(is_SA, heap, ops, 1, ci_info, <<0>>, v[1], v[2],
                              do_unsafe)} :
             Returns([NoCall EXCEPT !.fn = "propagate_state", !.operators = ops,
                                    !.thetas = <<0>>, !.wf_struct = v[1],
                                    !.do_folding = v[2], !.do_unsafe = do_unsafe], r)

\* propagate_state / propagate_state_SA with unitary markers
PropagateUnitaries ==
    /\ pc = "ready"
    /\ \E ops \in MarkerSeqs, wt \in StructThetas(ci_info), do_unsafe \in BOOLEAN :
          \E r \in {propagate(is_SA, heap, ops, 1, ci_info, wt[2], wt[1], FALSE,
                              do_unsafe)} :
             Returns([NoCall EXCEPT !.fn = "propagate_state", !.operators = ops,
                                    !.thetas = wt[2], !.wf_struct = wt[1],
                                    !.do_unsafe = do_unsafe], r)

\* construct_ups_state / construct_ups_state_SA / construct_ucc_state
ConstructState ==
    /\ pc = "ready"
    /\ \E wt \in StructThetas(ci_info), dagger \in BOOLEAN :
          \/ /\ wt[1].kind = "UPS"
             /\ \E r \in {construct_ups(is_SA, heap, 1, ci_info, wt[2], wt[1],
                                        dagger)} :
                   Returns([NoCall EXCEPT !.fn = "construct_ups_state",
                                          !.thetas = wt[2], !.wf_struct = wt[1],
                                          !.dagger = dagger], r)
          \/ /\ wt[1].kind = "UCC"
             /\ ~is_SA
             /\ \E r \in {construct_ucc_state(heap, 1, ci_info, wt[2], wt[1],
                                              dagger)} :
                   Returns([NoCall EXCEPT !.fn = "construct_ucc_state",
                                          !.thetas = wt[2], !.wf_struct = wt[1],
                                          !.dagger = dagger], r)

\* propagate_unitary
PropagateUnitary ==
    /\ pc = "ready"
    /\ ~is_SA
    /\ \E wt \in StructThetas(ci_info) :
          /\ wt[1].kind = "UPS"
          /\ \E idx \in 1..NumSteps(wt[1]) :
                \E r \in {propagate_unitary(heap, 1, idx, ci_info, wt[2], wt[1])} :
                   Returns([NoCall EXCEPT !.fn = "propagate_unitary",
                                          !.thetas = wt[2], !.wf_struct = wt[1],
                                          !.idx = idx], r)

\* build_operator_matrix; the matrix is returned as a new array.
BuildOperatorMatrix ==
    /\ pc = "ready"
    /\ ~is_SA
    /\ \E op \in MatrixOps, do_unsafe \in BOOLEAN :
          \E M \in {build_operator_matrix(op, ci_info, do_unsafe)} :
             \E r \in {IF M.err # "none" THEN Raise(M.err, heap)
                       ELSE Let(Alloc(heap, M.op_mat), LAMBDA n : Ok(n.heap, n.id))} :
                Returns([NoCall EXCEPT !.fn = "build_operator_matrix",
                                       !.operators = <<OpElem(op)>>,
                                       !.do_unsafe = do_unsafe], r)

\* expectation_value / expectation_value_SA; the float is returned as a
\* new object.
ExpectationValue ==
    /\ pc = "ready"
    /\ \E ndim \in {1, 2}, ops \in ExpectationSeqs,
          wt \in {<<UpsSingleDouble, <<1, 1>>>>, <<OtherStruct, <<>>>>} :
       \E bra \in Bras(NumDets(ci_info), is_SA, ndim) :
          \E r \in {IF is_SA
                    THEN expectation_value_SA(heap, bra, ops, 1, ci_info, wt[2],
                                              wt[1], TRUE)
                    ELSE expectation_value(heap, bra, ops, 1, ci_info, wt[2], wt[1],
                                           TRUE, FALSE)} :
             Returns([NoCall EXCEPT !.fn = "expectation_value", !.bra = bra,
                                    !.operators = ops, !.thetas = wt[2],
                                    !.wf_struct = wt[1], !.do_folding = TRUE], r)

\* The caller drops the result and is ready for the next call.
Release ==
    /\ pc = "returned"
    /\ pc' = "ready"
    /\ call' = NoCall
    /\ ret' = NoRet
    /\ UNCHANGED <<ci_info, is_SA, heap>>

Next ==
    \/ ApplyOperator
    \/ PropagateFermionic
    \/ PropagateUnitaries
    \/ ConstructState
    \/ PropagateUnitary
    \/ BuildOperatorMatrix
    \/ ExpectationValue
    \/ Release

Spec == Init /\ [][Next]_vars

(***************************************************************************)
(* The callers of density_matrix.py: ci_info holds the numbers of          *)
(* orbitals, heap the arrays rdm1, rdm2, h_int and g_int (objects 1 to 4); *)
(* a call of RDM1, RDM2 or get_electronic_energy returns a number and      *)
(* leaves the arrays alone.                                                *)
(***************************************************************************)
DensityInit ==
    /\ ci_info \in Partitions
    /\ is_SA = FALSE
    /\ heap \in {<<rdm1, rdm2, h_int, g_int>> :
                    rdm1 \in Rdm1s(ci_info.num_active_orbs),
                    rdm2 \in Rdm2s(ci_info.num_active_orbs),
                    h_int \in HInts(NumOrbs(ci_info)),
                    g_int \in GInts(NumOrbs(ci_info))}
    /\ call = NoCall
    /\ ret = NoRet
    /\ pc = "ready"

DensityReturns(c, val) ==
    /\ ret' = [err |-> "none", id |-> 0, val |-> val]
    /\ call' = c
    /\ pc' = "returned"
    /\ UNCHANGED <<ci_info, is_SA, heap>>

Rdm1Element ==
    /\ pc = "ready"
    /\ \E p \in Idx(NumOrbs(ci_info)), q \in Idx(NumOrbs(ci_info)) :
          DensityReturns([NoCall EXCEPT !.fn = "RDM1", !.pqrs = <<p, q>>],
                         RDM1(p, q, ci_info.num_inactive_orbs,
                              ci_info.num_active_orbs, heap[1]))

Rdm2Element ==
    /\ pc = "ready"
    /\ \E p \in Idx(NumOrbs(ci_info)), q \in Idx(NumOrbs(ci_info)),
          r \in Idx(NumOrbs(ci_info)), s \in Idx(NumOrbs(ci_info)) :
          DensityReturns([NoCall EXCEPT !.fn = "RDM2", !.pqrs = <<p, q, r, s>>],
                         RDM2(p, q, r, s, ci_info.num_inactive_orbs,
                              ci_info.num_active_orbs, heap[1], heap[2]))

ElectronicEnergy ==
    /\ pc = "ready"
    /\ \E e \in {get_electronic_energy(heap[3], heap[4], ci_info.num_inactive_orbs,
                                        ci_info.num_active_orbs, heap[1], heap[2])} :
          DensityReturns([NoCall EXCEPT !.fn = "get_electronic_energy"], e)

OrbitalGradient ==
    /\ pc = "ready"
    /\ \E kappa_idx \in KappaLists(NumOrbs(ci_info)) :
          \E v \in {get_orbital_gradient(heap[3], heap[4], kappa_idx,
                                          ci_info.num_inactive_orbs,
                                          ci_info.num_active_orbs, heap[1], heap[2])} :
             DensityReturns([NoCall EXCEPT !.fn = "get_orbital_gradient",
                                           !.kappa_idx = kappa_idx], v)

OrbitalGradientResponse ==
    /\ pc = "ready"
    /\ \E kappa_idx \in KappaLists(NumOrbs(ci_info)) :
          \E v \in {get_orbital_gradient_response(heap[3], heap[4], kappa_idx,
                                                   ci_info.num_inactive_orbs,
                                                   ci_info.num_active_orbs,
                                                   heap[1], heap[2])} :
             DensityReturns([NoCall EXCEPT !.fn = "get_orbital_gradient_response",
                                           !.kappa_idx = kappa_idx], v)

OrbitalResponseMetricSigma ==
    /\ pc = "ready"
    /\ \E kappa_idx \in KappaLists(NumOrbs(ci_info)) :
          DensityReturns([NoCall EXCEPT !.fn = "get_orbital_response_metric_sigma",
                                        !.kappa_idx = kappa_idx],
                         get_orbital_response_metric_sigma(
                             kappa_idx, ci_info.num_inactive_orbs,
                             ci_info.num_active_orbs, heap[1]))

\* The call fails when a write falls outside the accumulator.
DensityFails(c, e) ==
    /\ ret' = [err |-> e, id |-> 0, val |-> <<>>]
    /\ call' = c
    /\ pc' = "returned"
    /\ UNCHANGED <<ci_info, is_SA, heap>>

OrbitalResponseHessianBlock ==
    /\ pc = "ready"
    /\ \E kappa_idx1 \in HessianLists(NumOrbs(ci_info)),
          kappa_idx2 \in HessianLists(NumOrbs(ci_info)) :
          LET c == [NoCall EXCEPT !.fn = "get_orbital_response_hessian_block",
                                  !.kappa_idx = kappa_idx1,
                                  !.kappa_idx2 = kappa_idx2]
          IN  IF \A w \in HessianWrites(kappa_idx1, kappa_idx2) :
                    InsideShape(AccumulatorShape(kappa_idx1, kappa_idx2), w)
              THEN \E v \in {get_orbital_response_hessian_block(
                                  heap[3], heap[4], kappa_idx1, kappa_idx2,
                                  ci_info.num_inactive_orbs,
                                  ci_info.num_active_orbs, heap[1], heap[2])} :
                      DensityReturns(c, v)
              ELSE \E e \in OutOfBoundsOutcomes : DensityFails(c, e)

DensityNext ==
    \/ Rdm1Element
    \/ Rdm2Element
    \/ ElectronicEnergy
    \/ OrbitalGradient
    \/ OrbitalGradientResponse
    \/ OrbitalResponseMetricSigma
    \/ OrbitalResponseHessianBlock
    \/ Release

DensitySpec == DensityInit /\ [][DensityNext]_vars

(***************************************************************************)
(* Reference semantics of second quantization, on occupation sets: a       *)
(* determinant is the set of its occupied spin orbitals; an elementary     *)
(* operator on orbital p gives zero when p is empty (annihilation) or      *)
(* occupied (creation), and otherwise moves p with the sign                *)
(* (-1)^(number of occupied orbitals below p).  A string c+.. c+ a .. a    *)
(* acts from its rightmost operator.  w is [dead, occ, sign].              *)
(***************************************************************************)
Occ(det, num_active_orbs) ==
    {k \in 0..(2 * num_active_orbs - 1) :
        (det \div Pow2(2 * num_active_orbs - 1 - k)) % 2 = 1}

RefOp(w, p, creation) ==
    IF w.dead THEN w
    ELSE IF (p \in w.occ) = creation THEN [w EXCEPT !.dead = TRUE]
    ELSE [dead |-> FALSE,
          occ |-> IF creation THEN w.occ \cup {p} ELSE w.occ \ {p},
          sign |-> IF Cardinality({q \in w.occ : q < p}) % 2 = 0
                   THEN w.sign ELSE -w.sign]

\* The operators of idxs, the last written first.
RefOps(w, idxs, creation) ==
    For(LAMBDA acc, k : RefOp(acc, idxs[Len(idxs) + 1 - k], creation), w, Len(idxs))

RefString(occ, anni_idxs, create_idxs) ==
    RefOps(RefOps([dead |-> FALSE, occ |-> occ, sign |-> 1], anni_idxs, FALSE),
           create_idxs, TRUE)

\* The image of every determinant of the space under one string.
RefTerms(anni_idxs, create_idxs, ci) ==
    [i \in 1..NumDets(ci) |->
        RefString(Occ(ci.idx2det[i], ci.num_active_orbs), anni_idxs, create_idxs)]

\* The image of determinant i is the determinant j of the space.
RefHits(terms, i, j, ci) ==
    ~terms[i].dead /\ terms[i].occ = Occ(ci.idx2det[j], ci.num_active_orbs)

\* The image of determinant i is a determinant outside the space.
RefOutside(terms, i, ci) ==
    ~terms[i].dead /\ \A j \in 1..NumDets(ci) : ~RefHits(terms, i, j, ci)

\* factor * string applied to the vector v, restricted to the space.
RefVec(v, terms, factor, ci) ==
    [j \in 1..NumDets(ci) |->
        For(LAMBDA acc, i :
                IF RefHits(terms, i, j, ci)
                THEN RAdd(acc, RMul(RMul(factor, RInt(terms[i].sign)), v[i]))
                ELSE acc,
            RZero, NumDets(ci))]

\* The rows of an array: the vector itself, or the rows of a batch.
Rows(x) == IF is_SA THEN x ELSE <<x>>

\* The terms of the recorded apply_operator call.
CallTerms == RefTerms(call.anni_idxs, call.create_idxs, ci_info)

\* Some determinant with a nonzero amplitude is sent outside the space.
CallEscapes ==
    \E row \in 1..Len(Rows(heap[1])), i \in 1..NumDets(ci_info) :
        Rows(heap[1])[row][i] # RZero /\ RefOutside(CallTerms, i, ci_info)

\* The returned array is the reference image of the caller's array.
CallMatchesReference ==
    \A row \in 1..Len(Rows(heap[1])) :
        Rows(ret.val)[row] = RefVec(Rows(heap[1])[row], CallTerms, call.factor, ci_info)

AppliedOperator == pc = "returned" /\ call.fn = "apply_operator"

(***************************************************************************)
(* C1: for every operator string (creation indices, annihilation indices)  *)
(* and every determinant of the space, apply_operator acts as the          *)
(* reference operator: annihilations from the last written to the first,   *)
(* then creations likewise, each with the sign of the occupied orbitals    *)
(* below it in the current determinant; the output entry of the resulting  *)
(* determinant receives factor * sign * amplitude.                         *)
(***************************************************************************)
C1_ReferenceOperator ==
    (AppliedOperator /\ ~call.do_unsafe /\ ret.err = "none") => CallMatchesReference

\* A two-annihilator, two-creator string moved an amplitude.
C1_Witness ==
    /\ AppliedOperator /\ ~call.do_unsafe /\ ret.err = "none"
    /\ call.anni_idxs = <<0, 1>> /\ call.create_idxs = <<2, 3>>
    /\ \E row \in 1..Len(Rows(ret.val)), j \in 1..NumDets(ci_info) :
          Rows(ret.val)[row][j] # RZero

(***************************************************************************)
(* C2: without do_unsafe, when a string sends a determinant of nonzero     *)
(* amplitude to a non-kill determinant outside det2idx, the call raises    *)
(* (KeyError) and returns no array; the contribution is not dropped.  The  *)
(* matrix builder behind construct_ucc_state raises likewise for a string  *)
(* of the cluster operator that leaves the space.                          *)
(***************************************************************************)
UccSingleLeaves ==
    \E k \in 1..Len(call.thetas), dir \in BOOLEAN, i \in 1..NumDets(ci_info) :
        /\ \A j \in 1..NumSteps(call.wf_struct) :
              call.wf_struct.excitation_operator_type[j] = "single"
        /\ call.thetas[k] # 0
        /\ LET x == call.wf_struct.excitation_indices[k]
           IN  RefOutside(RefTerms(<<IF dir THEN x[1] ELSE x[2]>>,
                                   <<IF dir THEN x[2] ELSE x[1]>>, ci_info),
                          i, ci_info)

C2_SafeModeRaises ==
    /\ (AppliedOperator /\ ~call.do_unsafe /\ CallEscapes)
           => (ret.err = "KeyError" /\ ret.id = 0)
    /\ (pc = "returned" /\ call.fn = "construct_ucc_state" /\ UccSingleLeaves)
           => (ret.err = "KeyError" /\ ret.id = 0)

\* A safe call raised although another determinant had an image in the space.
C2_Witness ==
    /\ AppliedOperator /\ ~call.do_unsafe /\ CallEscapes
    /\ ret.err = "KeyError"
    /\ \E row \in 1..Len(Rows(heap[1])), i \in 1..NumDets(ci_info),
          j \in 1..NumDets(ci_info) :
          Rows(heap[1])[row][i] # RZero /\ RefHits(CallTerms, i, j, ci_info)

(***************************************************************************)
(* C3: with do_unsafe, a non-kill determinant outside det2idx contributes  *)
(* nothing and raises nothing, and every determinant with an image in the  *)
(* space contributes as it does without do_unsafe.                         *)
(***************************************************************************)
SafeRerun ==
    Let(ZerosLike(heap, 1, is_SA), LAMBDA tmp_state :
        IF is_SA
        THEN apply_operator_SA(tmp_state.heap, 1, call.anni_idxs, call.create_idxs,
                               ci_info, parity_check(ci_info.num_active_orbs),
                               FALSE, tmp_state.id, call.factor)
        ELSE apply_operator(tmp_state.heap, 1, call.anni_idxs, call.create_idxs,
                            ci_info, parity_check(ci_info.num_active_orbs),
                            FALSE, tmp_state.id, call.factor))

C3_UnsafeModeSkips ==
    (AppliedOperator /\ call.do_unsafe) =>
        /\ ret.err = "none"
        /\ CallMatchesReference
        /\ Let(SafeRerun, LAMBDA r : r.err = "none" => r.heap[r.ret] = ret.val)

\* An unsafe call dropped one image and kept another.
C3_Witness ==
    /\ AppliedOperator /\ call.do_unsafe /\ CallEscapes
    /\ ret.err = "none"
    /\ \E row \in 1..Len(Rows(ret.val)), j \in 1..NumDets(ci_info) :
          Rows(ret.val)[row][j] # RZero

(***************************************************************************)
(* C4: a determinant on which an annihilation meets an empty orbital or a  *)
(* creation an occupied one is a kill state: it contributes to no output   *)
(* entry and raises nothing, with or without do_unsafe and also when the   *)
(* partially transformed determinant is outside the space, and the other   *)
(* determinants are still processed.                                       *)
(***************************************************************************)
CallKills ==
    \E row \in 1..Len(Rows(heap[1])), i \in 1..NumDets(ci_info) :
        Rows(heap[1])[row][i] # RZero /\ CallTerms[i].dead

C4_KillState ==
    (AppliedOperator /\ CallKills) =>
        /\ ~CallEscapes => ret.err = "none"
        /\ ret.err = "none" => CallMatchesReference

\* A safe call with a killed determinant and a surviving one.
C4_Witness ==
    /\ AppliedOperator /\ CallKills /\ ~call.do_unsafe /\ ret.err = "none"
    /\ \E row \in 1..Len(Rows(ret.val)), j \in 1..NumDets(ci_info) :
          Rows(ret.val)[row][j] # RZero

\* A safe call whose only populated determinant is killed by the creation,
\* after the annihilation took it outside the space.
C4_WitnessPartial ==
    /\ AppliedOperator /\ ~call.do_unsafe /\ ret.err = "none"
    /\ call.anni_idxs = <<0>> /\ call.create_idxs = <<1>>
    /\ ~is_SA /\ heap[1][1] # RZero

(***************************************************************************)
(* Replaying a part of the recorded call on an array value, with the       *)
(* call's other arguments.                                                 *)
(***************************************************************************)
\* What a routine's result [err, heap, ret] shows to its caller.
Outcome(r) ==
    IF r.err = "none" THEN [err |-> "none", val |-> r.heap[r.ret]]
    ELSE [err |-> r.err, val |-> <<>>]

Rerun(operators, val) ==
    Outcome(propagate(is_SA, <<val>>, operators, 1, ci_info, call.thetas,
                      call.wf_struct, call.do_folding, call.do_unsafe))

CallOutcome == [err |-> ret.err, val |-> ret.val]

Propagated == pc = "returned" /\ call.fn = "propagate_state"

(***************************************************************************)
(* C5: propagate_state processes the sequence from its last element to its *)
(* first: the result for a sequence of two or more elements (operators or  *)
(* unitary markers) is the result of propagating its last element alone    *)
(* and then the elements before it on that result; an error of the first   *)
(* part is the error of the whole.  The same for propagate_state_SA.       *)
(***************************************************************************)
C5_ReverseOrder ==
    (Propagated /\ Len(call.operators) >= 2) =>
        Let(Rerun(<<call.operators[Len(call.operators)]>>, heap[1]), LAMBDA last :
            IF last.err # "none" THEN ret.err = last.err
            ELSE Rerun(SubSeq(call.operators, 1, Len(call.operators) - 1), last.val)
                     = CallOutcome)

\* Two different elements whose two orders give different results.
C5_Witness ==
    /\ Propagated /\ Len(call.operators) = 2 /\ ret.err = "none"
    /\ call.operators[1] # call.operators[2]
    /\ Rerun(Reverse(call.operators), heap[1]) # CallOutcome

(***************************************************************************)
(* C6: whatever the sequence and whatever the outcome (return or error),   *)
(* propagate_state, propagate_state_SA and the unitary constructors leave  *)
(* the caller's array as it was, and the array they return is not the      *)
(* caller's array object.                                                  *)
(***************************************************************************)
C6_InputUntouched ==
    [][(pc' = "returned" /\ call'.fn \in {"propagate_state", "construct_ups_state",
                                           "construct_ucc_state"})
           => (heap' = heap /\ (ret'.err = "none" => ret'.id # 1))]_vars

\* A call that returned an array different in value from its input.
C6_Witness ==
    /\ Propagated /\ Len(call.operators) >= 2 /\ ret.err = "none"
    /\ ret.val # heap[1]

\* A call that raised after its first element had been applied.
C6_WitnessError ==
    /\ Propagated /\ Len(call.operators) >= 2 /\ ret.err # "none"
    /\ Rerun(<<call.operators[Len(call.operators)]>>, heap[1]).err = "none"

(***************************************************************************)
(* C7: the empty operator sequence returns a copy of the state with the    *)
(* same amplitudes, for a single state and for a batch, whatever the       *)
(* structure, the parameters and the flags.                                *)
(***************************************************************************)
C7_EmptySequenceCopies ==
    (Propagated /\ call.operators = <<>>) =>
        (ret.err = "none" /\ ret.val = heap[1] /\ ret.id # 1)

\* An empty sequence on a nonzero batch, with a structure that a marker would
\* reject, nonzero parameters and do_unsafe.
C7_Witness ==
    /\ Propagated /\ call.operators = <<>> /\ ret.err = "none"
    /\ is_SA /\ call.wf_struct.kind = "UCC" /\ call.do_unsafe
    /\ call.thetas # <<0, 0>> /\ heap[1] # ZeroArray(heap[1], TRUE)

(***************************************************************************)
(* Reference form of a UPS step, on the reference semantics above: the     *)
(* generator T of a label list acts string by string from the right of     *)
(* each label; a string that sends a populated determinant outside the     *)
(* space is an error.                                                      *)
(***************************************************************************)
RefLabel(occ, fermi_label) ==
    For(LAMBDA acc, k : RefOp(acc, fermi_label[Len(fermi_label) + 1 - k][1],
                              fermi_label[Len(fermi_label) + 1 - k][2]),
        [dead |-> FALSE, occ |-> occ, sign |-> 1], Len(fermi_label))

RefLabelTerms(fermi_label, ci) ==
    [i \in 1..NumDets(ci) |->
        RefLabel(Occ(ci.idx2det[i], ci.num_active_orbs), fermi_label)]

\* T v for a vector v: [err, val].
RefGenVec(T, v, ci) ==
    For(LAMBDA acc, k :
            Let(RefLabelTerms(T[k][1], ci), LAMBDA terms :
                [err |-> acc.err \/ \E i \in 1..NumDets(ci) :
                                        v[i] # RZero /\ RefOutside(terms, i, ci),
                 val |-> VAdd(acc.val, RefVec(v, terms, T[k][2], ci))]),
        [err |-> FALSE, val |-> ZeroVec(NumDets(ci))], Len(T))

\* T x for an array x (a vector, or a batch row by row).
RefGen(T, x, ci) ==
    Let([row \in 1..Len(Rows(x)) |-> RefGenVec(T, Rows(x)[row], ci)], LAMBDA g :
        [err |-> \E row \in 1..Len(g) : g[row].err,
         val |-> IF is_SA THEN [row \in 1..Len(g) |-> g[row].val] ELSE g[1].val])

\* x + sin(theta) T x + (1 - cos(theta)) T (T x)
RefRotation(T, theta, r, ci) ==
    IF r.err THEN r
    ELSE Let(RefGen(T, r.val, ci), LAMBDA a :
             IF a.err THEN a
             ELSE Let(RefGen(T, a.val, ci), LAMBDA b :
                      IF b.err THEN b
                      ELSE [err |-> FALSE,
                            val |-> ArrAdd(ArrAdd(r.val,
                                                  ArrScale(Sin(theta), a.val, is_SA),
                                                  is_SA),
                                           ArrScale(RSub(ROne, Cos(theta)), b.val,
                                                    is_SA),
                                           is_SA)]))

\* The generators of a step: one for single and double, the alpha and then
\* the beta single excitation for sa_single.
RefGenerators(exc_type, x) ==
    IF exc_type = "single" THEN <<G1(x[1], x[2])>>
    ELSE IF exc_type = "double" THEN <<G2(x[1], x[2], x[3], x[4])>>
    ELSE <<G1(2 * x[1], 2 * x[2]), G1(2 * x[1] + 1, 2 * x[2] + 1)>>

\* One step with parameter theta on r = [err, val]: skipped when theta is 0.
RefUnitaryStep(exc_type, x, theta, r, ci) ==
    IF theta = 0 THEN r
    ELSE Let(RefGenerators(exc_type, x), LAMBDA gens :
             For(LAMBDA acc, k : RefRotation(gens[k], theta, acc, ci), r, Len(gens)))

\* All the steps of a structure: first to last with theta, or last to first
\* with -theta in the dagger direction.
RefUnitary(wf_struct, thetas, dagger, val, ci) ==
    For(LAMBDA acc, j :
            LET k == IF dagger THEN NumSteps(wf_struct) + 1 - j ELSE j
            IN  RefUnitaryStep(wf_struct.excitation_operator_type[k],
                               wf_struct.excitation_indices[k],
                               IF dagger THEN -thetas[k] ELSE thetas[k], acc, ci),
        [err |-> FALSE, val |-> val], NumSteps(wf_struct))

\* The call's outcome is the reference outcome r.
MatchesRef(r) ==
    IF r.err THEN ret.err = "KeyError" ELSE ret.err = "none" /\ ret.val = r.val

(***************************************************************************)
(* C8: a UPS step of type single or double with generator T and nonzero    *)
(* parameter theta maps psi to psi + sin(theta) T psi +                    *)
(* (1 - cos(theta)) T (T psi), with -theta in the dagger direction; a step *)
(* whose parameter is below the threshold leaves psi exactly as it is; a   *)
(* sa_single step applies the form with the alpha generator and then, on   *)
(* that result, with the beta generator.                                   *)
(***************************************************************************)
C8_UpsStepForm ==
    /\ (pc = "returned" /\ call.fn = "propagate_unitary"
           /\ call.wf_struct.excitation_operator_type[call.idx] \in UpsTags) =>
           MatchesRef(RefUnitaryStep(
               call.wf_struct.excitation_operator_type[call.idx],
               call.wf_struct.excitation_indices[call.idx],
               call.thetas[call.idx], [err |-> FALSE, val |-> heap[1]], ci_info))
    /\ (pc = "returned" /\ call.fn = "construct_ups_state"
           /\ (\A k \in 1..NumSteps(call.wf_struct) :
                  call.wf_struct.excitation_operator_type[k] \in UpsTags)
           /\ (~call.dagger \/ Len(call.thetas) = NumSteps(call.wf_struct))) =>
           MatchesRef(RefUnitary(call.wf_struct, call.thetas, call.dagger, heap[1],
                                 ci_info))

\* A dagger-direction construction of two rotated steps.
C8_Witness ==
    /\ pc = "returned" /\ call.fn = "construct_ups_state" /\ call.dagger
    /\ call.wf_struct = UpsSingleDouble /\ call.thetas = <<1, 1>>
    /\ ret.err = "none" /\ ret.val # heap[1]

\* A skipped step whose generator would have left the space.
C8_WitnessSkip ==
    /\ pc = "returned" /\ call.fn = "propagate_unitary" /\ ret.err = "none"
    /\ call.thetas[call.idx] = 0
    /\ RefUnitaryStep(call.wf_struct.excitation_operator_type[call.idx],
                      call.wf_struct.excitation_indices[call.idx], 1,
                      [err |-> FALSE, val |-> heap[1]], ci_info).err

\* A sa_single step that rotated the state.
C8_WitnessSaSingle ==
    /\ pc = "returned" /\ call.fn = "propagate_unitary" /\ ret.err = "none"
    /\ call.wf_struct = UpsSaSingle /\ call.thetas[call.idx] # 0
    /\ ret.val # heap[1]

(***************************************************************************)
(* C9: round trip.  For a UPS and for a UCC structure, every state and     *)
(* every parameter vector (one parameter per step),                        *)
(* propagate_state(["Ud"], propagate_state(["U"], s)) is s.                *)
(***************************************************************************)
C9_RoundTrip ==
    (Propagated /\ call.operators = <<StrElem("U")>> /\ ret.err = "none"
        /\ Len(call.thetas) = NumSteps(call.wf_struct)) =>
        Rerun(<<StrElem("Ud")>>, ret.val) = [err |-> "none", val |-> heap[1]]

\* A UPS round trip through a state different from s, every parameter nonzero.
C9_Witness ==
    /\ Propagated /\ call.operators = <<StrElem("U")>> /\ ret.err = "none"
    /\ call.wf_struct = UpsSingleDouble /\ call.thetas = <<1, 1>>
    /\ ret.val # heap[1]

\* The same for the UCC structure.
C9_WitnessUcc ==
    /\ Propagated /\ call.operators = <<StrElem("U")>> /\ ret.err = "none"
    /\ call.wf_struct = UccSingles /\ call.thetas = <<1, 1>>
    /\ ret.val # heap[1]

(***************************************************************************)
(* C10: for a single-excitation generator T = a+_a a_i - a+_i a_a,         *)
(* propagate_state([T, T, T], s) is -propagate_state([T], s).              *)
(***************************************************************************)
SingleExcitations == {OpElem(G1(0, 2)), OpElem(G1(0, 1))}

C10_TripleIsMinusSingle ==
    (Propagated /\ Len(call.operators) = 3
        /\ call.operators[1] \in SingleExcitations
        /\ call.operators[2] = call.operators[1]
        /\ call.operators[3] = call.operators[1]) =>
        Let(Rerun(<<call.operators[1]>>, heap[1]), LAMBDA once :
            /\ ret.err = once.err
            /\ ret.err = "none" => ret.val = ArrScale(RInt(-1), once.val, is_SA))

\* Three applications that returned a nonzero array.
C10_Witness ==
    /\ Propagated /\ Len(call.operators) = 3
    /\ call.operators[1] \in SingleExcitations
    /\ call.operators[2] = call.operators[1]
    /\ call.operators[3] = call.operators[1]
    /\ ret.err = "none" /\ ret.val # ZeroArray(heap[1], is_SA)

(***************************************************************************)
(* Calls that execute a unitary marker step on a structure with a tag      *)
(* outside the known set.  The parameter vectors of these structures have  *)
(* one entry per step.                                                     *)
(***************************************************************************)
KnownTags(wf_struct) == IF wf_struct.kind = "UCC" THEN UccTags ELSE UpsTags

UnknownSteps(wf_struct) ==
    {k \in 1..NumSteps(wf_struct) :
        wf_struct.excitation_operator_type[k] \notin KnownTags(wf_struct)}

\* The unitary constructors called directly, or propagate_state with U / Ud
\* among its elements and no other str.
MarkerCall ==
    /\ pc = "returned"
    /\ call.wf_struct.kind \in {"UPS", "UCC"}
    /\ \/ call.fn \in {"construct_ups_state", "construct_ucc_state"}
       \/ /\ call.fn = "propagate_state"
          /\ \E i \in 1..Len(call.operators) : call.operators[i].kind \in {"U", "Ud"}
          /\ \A i \in 1..Len(call.operators) :
                call.operators[i].kind \in {"U", "Ud", "op"}

\* Some step with an unknown tag has a parameter that is not skipped.
UnknownLive ==
    \E k \in UnknownSteps(call.wf_struct) :
        k <= Len(call.thetas) /\ call.thetas[k] # 0

(***************************************************************************)
(* C11 as stated: a unitary marker step executed with a structure that has *)
(* an unknown tag fails for every parameter vector, the zero parameters    *)
(* included.                                                               *)
(***************************************************************************)
C11_UnknownTagAlwaysFails ==
    (MarkerCall /\ UnknownSteps(call.wf_struct) # {}) => ret.err # "none"

(***************************************************************************)
(* C11 amended: the call fails when the parameter of a step with an        *)
(* unknown tag is not below the threshold: ValueError from get_ucc_T, and  *)
(* from construct_ups_state unless an earlier step or element raised       *)
(* first.  A step whose parameter is below the threshold is skipped before *)
(* its tag is looked at, and raises nothing.                               *)
(***************************************************************************)
C11_UnknownTagFailsUnlessSkipped ==
    /\ (MarkerCall /\ UnknownLive) => ret.err # "none"
    /\ (MarkerCall /\ UnknownLive
           /\ call.fn \in {"construct_ups_state", "construct_ucc_state"}) =>
           \/ ret.err = "ValueError"
           \/ /\ ret.err = "KeyError"
              /\ call.fn = "construct_ups_state" /\ ~call.dagger
    /\ (MarkerCall /\ UnknownSteps(call.wf_struct) # {} /\ ~UnknownLive) =>
           ret.err # "ValueError"

\* The known step ran and the step with the unknown tag then raised.
C11_Witness ==
    /\ MarkerCall /\ call.fn = "construct_ups_state" /\ ~call.dagger
    /\ call.wf_struct = UpsOtherTag /\ call.thetas = <<1, 1>>
    /\ ret.err = "ValueError"

\* The step with the unknown tag was skipped and the other step rotated the state.
C11_WitnessSkipped ==
    /\ MarkerCall /\ call.wf_struct = UpsOtherTag /\ call.thetas = <<1, 0>>
    /\ ret.err = "none" /\ ret.val # heap[1]

\* The same through get_ucc_T.
C11_WitnessUcc ==
    /\ MarkerCall /\ call.fn = "construct_ucc_state"
    /\ call.wf_struct = UccOtherTag /\ call.thetas = <<1, 1>>
    /\ ret.err = "ValueError"

(***************************************************************************)
(* C12: propagate_state raises TypeError exactly when a unitary marker is  *)
(* reached (the elements behind it in the list, which run first, raised    *)
(* nothing) while the structure is neither a UPS nor a UCC structure; a    *)
(* sequence of fermionic operators alone never raises it, whatever the     *)
(* structure.  propagate_state_SA accepts a UPS structure only.            *)
(***************************************************************************)
Accepted(wf_struct) ==
    wf_struct.kind = "UPS" \/ (wf_struct.kind = "UCC" /\ ~is_SA)

\* Element i is a marker, and the elements after it ran without an error.
MarkerReached(i) ==
    /\ call.operators[i].kind \in {"U", "Ud"}
    /\ Rerun(SubSeq(call.operators, i + 1, Len(call.operators)), heap[1]).err = "none"

C12_TypeErrorAtMarker ==
    Propagated =>
        /\ ret.err = "TypeError" <=>
               /\ ~Accepted(call.wf_struct)
               /\ \E i \in 1..Len(call.operators) : MarkerReached(i)
        /\ (\A i \in 1..Len(call.operators) : call.operators[i].kind = "op") =>
               ret.err # "TypeError"

\* A marker reached after a fermionic operator ran, on a structure of
\* another kind.
C12_Witness ==
    /\ Propagated /\ ret.err = "TypeError" /\ ~is_SA
    /\ call.wf_struct = OtherStruct
    /\ call.operators = <<StrElem("U"), OpElem(G1(0, 2))>>

\* A UCC structure at a marker of propagate_state_SA.
C12_WitnessSA ==
    /\ Propagated /\ ret.err = "TypeError" /\ is_SA
    /\ call.wf_struct.kind = "UCC"

\* The marker was not reached: the operator behind it raised first.
C12_WitnessNotReached ==
    /\ Propagated /\ ret.err = "KeyError" /\ call.wf_struct = OtherStruct
    /\ call.operators = <<StrElem("U"), OpElem(G1(0, 2))>>

\* Fermionic operators alone, on a structure of another kind.
C12_WitnessFermionic ==
    /\ Propagated /\ ret.err = "none" /\ call.wf_struct = OtherStruct
    /\ Len(call.operators) = 2
    /\ \A i \in 1..2 : call.operators[i].kind = "op"

(***************************************************************************)
(* C13: whenever the state-averaged variant returns, row k of its result   *)
(* is what the single-state variant returns for row k of the batch, with   *)
(* the same operators, structure, parameters and flags: propagate_state_SA *)
(* against propagate_state, construct_ups_state_SA against                 *)
(* construct_ups_state, apply_operator_SA against apply_operator.          *)
(***************************************************************************)
\* The single-state routine of the recorded call on the vector v.
SingleStateRun(v) ==
    IF call.fn = "propagate_state"
    THEN Outcome(propagate_state(<<v>>, call.operators, 1, ci_info, call.thetas,
                                 call.wf_struct, call.do_folding, call.do_unsafe))
    ELSE IF call.fn = "construct_ups_state"
    THEN Outcome(construct_ups_state(<<v>>, 1, ci_info, call.thetas,
                                     call.wf_struct, call.dagger))
    ELSE Outcome(apply_operator(<<v, ZeroVec(Len(v))>>, 1, call.anni_idxs,
                                call.create_idxs, ci_info,
                                parity_check(ci_info.num_active_orbs),
                                call.do_unsafe, 2, call.factor))

BatchCall ==
    /\ pc = "returned" /\ is_SA
    /\ call.fn \in {"propagate_state", "construct_ups_state", "apply_operator"}

C13_RowsAsSingleState ==
    (BatchCall /\ ret.err = "none") =>
        \A k \in 1..Len(heap[1]) :
            SingleStateRun(heap[1][k]) = [err |-> "none", val |-> ret.val[k]]

\* A batch whose rows differ, rotated by a unitary and then hit by an
\* operator, with a different result in each row.
C13_Witness ==
    /\ BatchCall /\ ret.err = "none" /\ call.fn = "propagate_state"
    /\ call.wf_struct.kind = "UPS"
    /\ \E i \in 1..Len(call.operators) : call.operators[i].kind = "U"
    /\ \E i \in 1..Len(call.operators) : call.operators[i].kind = "op"
    /\ heap[1][1] # heap[1][2] /\ ret.val[1] # ret.val[2]
    /\ ret.val # heap[1]

\* A column that is zero in the first row and populated in the second.
C13_WitnessColumn ==
    /\ BatchCall /\ ret.err = "none" /\ call.fn = "apply_operator"
    /\ \E i \in 1..NumDets(ci_info) :
          heap[1][1][i] = RZero /\ heap[1][2][i] # RZero
    /\ ret.val[2] # ZeroVec(NumDets(ci_info))

(***************************************************************************)
(* C14: for a fermionic operator op whose strings send every determinant   *)
(* of the space into the space (or kill it), the matrix M of               *)
(* build_operator_matrix(op) has as entry M[j, i] the sum, over the        *)
(* strings that send determinant i to determinant j, of coefficient times  *)
(* sign, and M s is propagate_state([op], s) without folding.  The sign    *)
(* of a string is the sign of its creation indices and its annihilation    *)
(* indices, separated as build_operator_matrix hands them to the operator  *)
(* of C1.                                                                  *)
(***************************************************************************)
BuiltMatrix == pc = "returned" /\ call.fn = "build_operator_matrix"

\* The string of a label: its creation operators, then its annihilation
\* operators, each in label order.
SeparatedLabel(fermi_label) ==
    SelectSeq(fermi_label, LAMBDA f : f[2]) \o SelectSeq(fermi_label, LAMBDA f : ~f[2])

SeparatedTerms(fermi_label) == RefLabelTerms(SeparatedLabel(fermi_label), ci_info)

\* No string of op takes a determinant of the space outside of it.
KeepsSpaceClosed(op) ==
    \A k \in 1..Len(op), i \in 1..NumDets(ci_info) :
        ~RefOutside(SeparatedTerms(op[k][1]), i, ci_info)

\* The sum of coefficient * sign over the strings of op that send i to j.
RefEntry(op, j, i) ==
    For(LAMBDA acc, k :
            Let(SeparatedTerms(op[k][1]), LAMBDA terms :
                IF RefHits(terms, i, j, ci_info)
                THEN RAdd(acc, RMul(op[k][2], RInt(terms[i].sign)))
                ELSE acc),
        RZero, Len(op))

C14_MatrixIsOperator ==
    (BuiltMatrix /\ KeepsSpaceClosed(call.operators[1].op)) =>
        /\ ret.err = "none"
        /\ \A j \in 1..NumDets(ci_info), i \in 1..NumDets(ci_info) :
              ret.val[j][i] = RefEntry(call.operators[1].op, j, i)
        /\ Outcome(propagate_state(<<heap[1]>>, call.operators, 1, ci_info, <<0>>,
                                   OtherStruct, FALSE, FALSE))
              = [err |-> "none", val |-> MatVec(ret.val, heap[1])]

\* An antisymmetric matrix acting on a state.
C14_Witness ==
    /\ BuiltMatrix /\ KeepsSpaceClosed(call.operators[1].op)
    /\ \E j \in 1..NumDets(ci_info), i \in 1..NumDets(ci_info) :
          ret.val[j][i] # RZero /\ ret.val[j][i] = RNeg(ret.val[i][j])
    /\ MatVec(ret.val, heap[1]) # ZeroVec(NumDets(ci_info))

\* An entry that two strings of the operator contribute to.
C14_WitnessSum ==
    /\ BuiltMatrix /\ KeepsSpaceClosed(call.operators[1].op)
    /\ \E j \in 1..NumDets(ci_info),
          k \in 1..Len(call.operators[1].op), l \in 1..Len(call.operators[1].op) :
          /\ k # l
          /\ RefHits(RefLabelTerms(call.operators[1].op[k][1], ci_info), j, j, ci_info)
          /\ RefHits(RefLabelTerms(call.operators[1].op[l][1], ci_info), j, j, ci_info)
          /\ ret.val[j][j] = RInt(3)

(***************************************************************************)
(* C15: expectation_value returns the inner product of bra with            *)
(* propagate_state(operators, ket), and raises when "bra @ op_ket" is not  *)
(* one float (a bra of two dimensions gives an array);                     *)
(* expectation_value_SA returns the sum over the states k of the batch of  *)
(* the inner product of bra[k] with row k of propagate_state_SA(operators, *)
(* ket), divided by the number of states.  An error of the propagation is  *)
(* the error of the call.                                                  *)
(***************************************************************************)
Expected == pc = "returned" /\ call.fn = "expectation_value"

RECURSIVE InnerProduct(_, _)
InnerProduct(u, v) ==
    IF Len(u) = 0 THEN RZero
    ELSE RAdd(RMul(Head(u), Head(v)), InnerProduct(Tail(u), Tail(v)))

\* The value the claim gives, for the propagated ket op_ket.
ExpectedValue(op_ket) ==
    IF is_SA
    THEN RMul(<<1, Len(call.bra.val)>>,
              RAdd(InnerProduct(call.bra.val[1], op_ket[1]),
                   InnerProduct(call.bra.val[2], op_ket[2])))
    ELSE InnerProduct(call.bra.val, op_ket)

C15_ExpectationValue ==
    Expected =>
        Let(Rerun(call.operators, heap[1]), LAMBDA op_ket :
            IF op_ket.err # "none" THEN ret.err = op_ket.err
            ELSE IF ~is_SA /\ call.bra.ndim # 1 THEN ret.err = "ValueError"
            ELSE ret.err = "none" /\ ret.val = ExpectedValue(op_ket.val))

\* A nonzero expectation value over a rotated state.
C15_Witness ==
    /\ Expected /\ ~is_SA /\ ret.err = "none" /\ ret.val # RZero
    /\ call.operators = <<StrElem("Ud"), OpElem(NumberOp), StrElem("U")>>
    /\ call.wf_struct = UpsSingleDouble

\* A nonzero state-averaged value.
C15_WitnessSA ==
    /\ Expected /\ is_SA /\ ret.err = "none" /\ ret.val # RZero
    /\ Len(call.bra.val) # NumDets(ci_info)

\* A bra of two dimensions: the product is an array and the call raises.
C15_WitnessNotFloat ==
    /\ Expected /\ ~is_SA /\ call.bra.ndim = 2 /\ ret.err = "ValueError"
    /\ Rerun(call.operators, heap[1]).err = "none"

(***************************************************************************)
(* Claims on density_matrix.py, checked under DensitySpec.  The block of   *)
(* an orbital index: inactive below num_inactive_orbs, then active, then   *)
(* virtual.                                                                *)
(***************************************************************************)
Block(p) ==
    IF p < ci_info.num_inactive_orbs THEN "i"
    ELSE IF p < ci_info.num_inactive_orbs + ci_info.num_active_orbs THEN "a"
    ELSE "v"

\* The entry of the active rdm1 for the full-space indices p and q.
Gamma1(p, q) ==
    heap[1][p - ci_info.num_inactive_orbs, q - ci_info.num_inactive_orbs]

Delta(p, q) == IF p = q THEN 1 ELSE 0

Rdm1Called == pc = "returned" /\ call.fn = "RDM1"
Rdm2Called == pc = "returned" /\ call.fn = "RDM2"

C16_WitnessActive ==
    /\ Rdm1Called /\ Block(call.pqrs[1]) = "a" /\ Block(call.pqrs[2]) = "a"
    /\ call.pqrs[1] # call.pqrs[2] /\ ci_info.num_inactive_orbs > 0
    /\ ret.val # 0

C17_WitnessActive ==
    /\ Rdm2Called /\ \A k \in 1..4 : Block(call.pqrs[k]) = "a"
    /\ ci_info.num_inactive_orbs > 0
    /\ call.pqrs[1] # call.pqrs[2] /\ call.pqrs[3] # call.pqrs[4]
    /\ heap[2] = TensorOf(ci_info.num_active_orbs, 1, 1)
    /\ ret.val # 0

\* A mixed element that takes its value from rdm1.
C17_WitnessMixed ==
    /\ Rdm2Called /\ ret.val < 0
    /\ <<Block(call.pqrs[1]), Block(call.pqrs[2]), Block(call.pqrs[3]),
         Block(call.pqrs[4])>> = <<"i", "a", "a", "i">>
    /\ call.pqrs[2] # call.pqrs[3]

\* A pattern that is not listed, without a virtual index.
C17_WitnessOther ==
    /\ Rdm2Called /\ ret.val = 0
    /\ <<Block(call.pqrs[1]), Block(call.pqrs[2]), Block(call.pqrs[3]),
         Block(call.pqrs[4])>> = <<"i", "a", "i", "a">>
    /\ Gamma1(call.pqrs[2], call.pqrs[4]) # 0

(***************************************************************************)
(* C18: for a symmetric active rdm1 and all p, q over the inactive, active *)
(* and virtual orbitals, RDM1(p, q) = RDM1(q, p).                          *)
(***************************************************************************)
SymmetricMatrix(m) == \A i \in DOMAIN m : m[i] = m[<<i[2], i[1]>>]

C18_Rdm1Symmetric ==
    (Rdm1Called /\ SymmetricMatrix(heap[1])) =>
        ret.val = RDM1(call.pqrs[2], call.pqrs[1], ci_info.num_inactive_orbs,
                       ci_info.num_active_orbs, heap[1])

\* Two different active indices, with a nonzero element.
C18_Witness ==
    /\ Rdm1Called /\ SymmetricMatrix(heap[1])
    /\ Block(call.pqrs[1]) = "a" /\ Block(call.pqrs[2]) = "a"
    /\ call.pqrs[1] # call.pqrs[2] /\ ret.val # 0

\* An inactive and an active index.
C18_WitnessMixed ==
    /\ Rdm1Called /\ SymmetricMatrix(heap[1])
    /\ Block(call.pqrs[1]) = "i" /\ Block(call.pqrs[2]) = "a"

(***************************************************************************)
(* C19: for active rdm1 and rdm2 with the documented symmetries (rdm1      *)
(* symmetric; rdm2[p,q,r,s] = rdm2[r,s,p,q] = rdm2[q,p,s,r] =              *)
(* rdm2[s,r,q,p]) and all index quadruples over the inactive, active and   *)
(* virtual orbitals, RDM2(p,q,r,s) = RDM2(r,s,p,q) = RDM2(q,p,s,r) =       *)
(* RDM2(s,r,q,p).                                                          *)
(***************************************************************************)
SymmetricTensor(t) ==
    \A i \in DOMAIN t :
        /\ t[i] = t[<<i[3], i[4], i[1], i[2]>>]
        /\ t[i] = t[<<i[2], i[1], i[4], i[3]>>]
        /\ t[i] = t[<<i[4], i[3], i[2], i[1]>>]

Rdm2At(p, q, r, s) ==
    RDM2(p, q, r, s, ci_info.num_inactive_orbs, ci_info.num_active_orbs,
         heap[1], heap[2])

C19_Rdm2Symmetric ==
    (Rdm2Called /\ SymmetricMatrix(heap[1]) /\ SymmetricTensor(heap[2])) =>
        LET p == call.pqrs[1]
            q == call.pqrs[2]
            r == call.pqrs[3]
            s == call.pqrs[4]
        IN  /\ ret.val = Rdm2At(r, s, p, q)
            /\ ret.val = Rdm2At(q, p, s, r)
            /\ ret.val = Rdm2At(s, r, q, p)

\* A mixed quadruple whose partners fall in another branch, with a nonzero
\* value.
C19_Witness ==
    /\ Rdm2Called /\ SymmetricMatrix(heap[1]) /\ SymmetricTensor(heap[2])
    /\ <<Block(call.pqrs[1]), Block(call.pqrs[2]), Block(call.pqrs[3]),
         Block(call.pqrs[4])>> = <<"i", "a", "a", "i">>
    /\ call.pqrs[2] # call.pqrs[3] /\ ret.val # 0

\* An active quadruple of four positions that are not all equal, on an rdm2
\* that is not zero.
C19_WitnessActive ==
    /\ Rdm2Called /\ SymmetricMatrix(heap[1]) /\ SymmetricTensor(heap[2])
    /\ \A k \in 1..4 : Block(call.pqrs[k]) = "a"
    /\ call.pqrs[1] # call.pqrs[2] /\ ret.val # 0
    /\ heap[2][<<0, 1, 0, 1>>] # heap[2][<<1, 0, 0, 1>>]

(***************************************************************************)
(* C20: get_electronic_energy returns sum_pq h[p,q] RDM1(p,q) +            *)
(* 1/2 sum_pqrs g[p,q,r,s] RDM2(p,q,r,s) over the inactive and active      *)
(* orbitals; the sums over all the orbitals, virtual ones included, give   *)
(* the same value, and so do integrals whose entries with a virtual index  *)
(* are set to zero; with g = 0 the value is 2 sum_i h[i,i] over the        *)
(* inactive orbitals plus sum_vw h[v,w] rdm1[v,w] over the active ones (7  *)
(* for one inactive and one active orbital, h = diag(2, 3), rdm1 = [[1]]). *)
(***************************************************************************)
\* The sum of F(0), ..., F(n - 1)
SumIdx(n, F(_)) ==
    LET S[k \in 0..n] == IF k = 0 THEN RZero ELSE RAdd(S[k - 1], F(k - 1))
    IN  S[n]

Rdm1At(p, q) ==
    RDM1(p, q, ci_info.num_inactive_orbs, ci_info.num_active_orbs, heap[1])

\* The energy formula with every index running over range(n).
EnergySum(n) ==
    RAdd(SumIdx(n, LAMBDA p : SumIdx(n, LAMBDA q :
             RInt(heap[3][p, q] * Rdm1At(p, q)))),
         RMul(<<1, 2>>,
              SumIdx(n, LAMBDA p : SumIdx(n, LAMBDA q :
              SumIdx(n, LAMBDA r : SumIdx(n, LAMBDA s :
                  RInt(heap[4][p, q, r, s] * Rdm2At(p, q, r, s))))))))

\* 2 sum_i h[i,i] + sum_vw h[v,w] rdm1[v,w]
OneElectronEnergy ==
    LET ni == ci_info.num_inactive_orbs
    IN  RAdd(SumIdx(ni, LAMBDA i : RInt(2 * heap[3][i, i])),
             SumIdx(ci_info.num_active_orbs, LAMBDA v :
                 SumIdx(ci_info.num_active_orbs, LAMBDA w :
                     RInt(heap[3][ni + v, ni + w] * heap[1][v, w]))))

\* The array t with its entries of a virtual index set to zero.
WithoutVirtual(t) ==
    [i \in DOMAIN t |->
        IF \E k \in 1..Len(i) : Block(i[k]) = "v" THEN 0 ELSE t[i]]

IsZeroArray(t) == \A i \in DOMAIN t : t[i] = 0

EnergyCalled == pc = "returned" /\ call.fn = "get_electronic_energy"

\* One inactive and one active orbital, h = diag(2, 3) on them, rdm1 = [[1]],
\* g = 0.
EnergyExample ==
    /\ ci_info.num_inactive_orbs = 1 /\ ci_info.num_active_orbs = 1
    /\ heap[1][0, 0] = 1
    /\ heap[3][0, 0] = 2 /\ heap[3][1, 1] = 3
    /\ heap[3][0, 1] = 0 /\ heap[3][1, 0] = 0
    /\ IsZeroArray(heap[4])

C20_ElectronicEnergy ==
    EnergyCalled =>
        /\ ret.val = EnergySum(ci_info.num_inactive_orbs + ci_info.num_active_orbs)
        /\ ret.val = EnergySum(NumOrbs(ci_info))
        /\ ret.val = get_electronic_energy(WithoutVirtual(heap[3]),
                                           WithoutVirtual(heap[4]),
                                           ci_info.num_inactive_orbs,
                                           ci_info.num_active_orbs, heap[1], heap[2])
        /\ IsZeroArray(heap[4]) => ret.val = OneElectronEnergy
        /\ EnergyExample => ret.val = RInt(7)

\* An energy with a two-electron part, with inactive, active and virtual
\* orbitals and integrals that are not zero on the virtual orbital.
C20_Witness ==
    /\ EnergyCalled
    /\ ci_info.num_inactive_orbs > 0 /\ ci_info.num_active_orbs > 1
    /\ ci_info.num_virtual_orbs > 0
    /\ ~IsZeroArray(heap[4]) /\ ~IsZeroArray(heap[2])
    /\ heap[3] # WithoutVirtual(heap[3]) /\ heap[4] # WithoutVirtual(heap[4])
    /\ ret.val # OneElectronEnergy

\* The example of the claim, with a virtual orbital as well.
C20_WitnessExample ==
    /\ EnergyCalled /\ EnergyExample /\ ci_info.num_virtual_orbs = 1
    /\ ret.val = RInt(7)

(***************************************************************************)
(* The response routines of density_matrix.py.                             *)
(***************************************************************************)
\* The full-space one-electron density from the orbital blocks.
FullGamma1(p, q) ==
    IF Block(p) = "i" /\ Block(q) = "i" THEN 2 * Delta(p, q)
    ELSE IF Block(p) = "a" /\ Block(q) = "a" THEN Gamma1(p, q)
    ELSE 0

MetricCalled == pc = "returned" /\ call.fn = "get_orbital_response_metric_sigma"

Positions == 1..Len(call.kappa_idx)

(***************************************************************************)
(* C21 as stated: the orbital response metric is antisymmetric under       *)
(* exchanging the row and the column kappa pair, Sigma[a, b] = -Sigma[b, a]*)
(* for all positions a and b, so every diagonal entry is 0.                *)
(***************************************************************************)
C21_MetricAntisymmetric ==
    MetricCalled =>
        \A a \in Positions, b \in Positions :
            ret.val.data[a, b] = RNeg(ret.val.data[b, a])

(***************************************************************************)
(* C21 as amended: with a symmetric active rdm1 the orbital response       *)
(* metric is symmetric under exchanging the row and the column kappa pair, *)
(* Sigma[a, b] = Sigma[b, a]; whatever the rdm1, the diagonal entry of the *)
(* pair (n, m) is (Gamma1[n, n] - Gamma1[m, m]) / 2.                       *)
(***************************************************************************)
C21_MetricSymmetric ==
    MetricCalled =>
        /\ ret.val.shape = <<Len(call.kappa_idx), Len(call.kappa_idx)>>
        /\ SymmetricMatrix(heap[1]) =>
              \A a \in Positions, b \in Positions :
                  ret.val.data[a, b] = ret.val.data[b, a]
        /\ \A a \in Positions :
              LET n == call.kappa_idx[a][1]
                  m == call.kappa_idx[a][2]
              IN  ret.val.data[a, a] = Rat(FullGamma1(n, n) - FullGamma1(m, m), 2)

\* Two different pairs with a metric element between them that is not zero,
\* and a diagonal that is not zero, for a symmetric rdm1.
C21_Witness ==
    /\ MetricCalled /\ SymmetricMatrix(heap[1])
    /\ Len(call.kappa_idx) = 2 /\ call.kappa_idx[1] # call.kappa_idx[2]
    /\ ret.val.data[1, 2] # RZero
    /\ ret.val.data[1, 1] # RZero

\* An rdm1 that is not symmetric, where the metric is not symmetric either.
C21_WitnessAsymmetric ==
    /\ MetricCalled /\ ~SymmetricMatrix(heap[1])
    /\ Len(call.kappa_idx) = 2
    /\ ret.val.data[1, 2] # ret.val.data[2, 1]

ResponseCalled == pc = "returned" /\ call.fn = "get_orbital_gradient_response"

\* The 1-electron and the 2-electron term of get_orbital_gradient for (m, n)
OneElectronTerm(m, n) ==
    gradient_one_electron(RZero, heap[3], m, n, ci_info.num_inactive_orbs,
                          ci_info.num_active_orbs, heap[1])

TwoElectronTerm(m, n) ==
    gradient_two_electron(RZero, heap[4], m, n, ci_info.num_inactive_orbs,
                          ci_info.num_active_orbs, heap[1], heap[2])

\* x times 2^(-1/2)
TimesInvSqrt2(x) == [coef |-> x, unit |-> "2^(-1/2)"]

\* Every entry of the two blocks is TimesInvSqrt2(Entry(m, n)), with m and n
\* swapped in the second block.
ResponseIs(Entry(_, _)) ==
    LET K == Len(call.kappa_idx)
    IN  /\ DOMAIN ret.val = 1..(2 * K)
        /\ \A idx \in 1..K :
              LET m == call.kappa_idx[idx][1]
                  n == call.kappa_idx[idx][2]
              IN  /\ ret.val[idx] = TimesInvSqrt2(Entry(m, n))
                  /\ ret.val[K + idx] = TimesInvSqrt2(Entry(n, m))

(***************************************************************************)
(* C22 as stated: for K kappa pairs get_orbital_gradient_response returns  *)
(* 2 K entries; entry idx is 2^(-1/2) times [the 1-electron term of        *)
(* get_orbital_gradient for (m, n), unchanged, plus its 2-electron term    *)
(* with each coefficient halved], and entry K + idx is the same with m and *)
(* n swapped.                                                              *)
(***************************************************************************)
C22_ResponseKeepsOneElectronTerm ==
    ResponseCalled =>
        ResponseIs(LAMBDA m, n :
            RAdd(OneElectronTerm(m, n), RMul(Rat(1, 2), TwoElectronTerm(m, n))))

(***************************************************************************)
(* C22 as amended: entry idx is 2^(-1/2) times [the 1-electron term and    *)
(* the 2-electron term of get_orbital_gradient for (m, n), each with its   *)
(* coefficients halved], and entry K + idx is the same with m and n        *)
(* swapped; the length is 2 K.                                             *)
(***************************************************************************)
C22_ResponseHalvesBothTerms ==
    ResponseCalled =>
        ResponseIs(LAMBDA m, n :
            RAdd(RMul(Rat(1, 2), OneElectronTerm(m, n)),
                 RMul(Rat(1, 2), TwoElectronTerm(m, n))))

\* Two pairs, with a 1-electron and a 2-electron term that are not zero.
C22_Witness ==
    /\ ResponseCalled /\ Len(call.kappa_idx) = 2
    /\ OneElectronTerm(call.kappa_idx[1][1], call.kappa_idx[1][2]) # RZero
    /\ TwoElectronTerm(call.kappa_idx[1][1], call.kappa_idx[1][2]) # RZero
    /\ ret.val[1].coef # RZero /\ ret.val[4].coef # RZero
    /\ ret.val[1] # ret.val[2]

(***************************************************************************)
(* C30: for symmetric h and symmetric active rdm1 (any g, any rdm2) the    *)
(* second block of get_orbital_gradient_response is the negative of the    *)
(* first, result[K + idx] = -result[idx] for every position idx of the K   *)
(* pairs; the 2-electron part changes sign under swapping m and n whatever *)
(* g and rdm2 are.                                                         *)
(***************************************************************************)
ResponseTwoElectronPart(m, n) ==
    response_two_electron(RZero, heap[4], m, n, ci_info.num_inactive_orbs,
                          ci_info.num_active_orbs, heap[1], heap[2])

ResponseOneElectronPart(m, n) ==
    response_one_electron(RZero, heap[3], m, n, ci_info.num_inactive_orbs,
                          ci_info.num_active_orbs, heap[1])

C30_SecondBlockNegative ==
    ResponseCalled =>
        LET K == Len(call.kappa_idx)
        IN  \A idx \in 1..K :
               LET m == call.kappa_idx[idx][1]
                   n == call.kappa_idx[idx][2]
               IN  /\ ResponseTwoElectronPart(n, m) = RNeg(ResponseTwoElectronPart(m, n))
                   /\ (SymmetricMatrix(heap[3]) /\ SymmetricMatrix(heap[1])) =>
                         /\ ret.val[K + idx].coef = RNeg(ret.val[idx].coef)
                         /\ ret.val[K + idx].unit = ret.val[idx].unit

\* Symmetric h and rdm1 with g and rdm2 that have no symmetry, and an entry
\* whose 1-electron and 2-electron parts are not zero.
C30_Witness ==
    /\ ResponseCalled /\ Len(call.kappa_idx) = 2
    /\ SymmetricMatrix(heap[3]) /\ SymmetricMatrix(heap[1])
    /\ ~SymmetricTensor(heap[4]) /\ ~SymmetricTensor(heap[2])
    /\ ResponseOneElectronPart(call.kappa_idx[1][1], call.kappa_idx[1][2]) # RZero
    /\ ResponseTwoElectronPart(call.kappa_idx[1][1], call.kappa_idx[1][2]) # RZero
    /\ ret.val[1].coef # RZero /\ ret.val[3].coef = RNeg(ret.val[1].coef)

\* With an h that is not symmetric the second block need not be the negative.
C30_WitnessAsymmetric ==
    /\ ResponseCalled /\ Len(call.kappa_idx) = 1
    /\ ~SymmetricMatrix(heap[3])
    /\ ret.val[2].coef # RNeg(ret.val[1].coef)

HessianCalled == pc = "returned" /\ call.fn = "get_orbital_response_hessian_block"

(***************************************************************************)
(* C29: in get_orbital_response_hessian_block, for all kappa lists         *)
(* kappa_idx1 and kappa_idx2, of different lengths too, every write        *)
(* A1e[idx1, idx2] and A2e[idx1, idx2] is inside the allocated accumulator *)
(* and the returned matrix has one row per pair of kappa_idx1 and one      *)
(* column per pair of kappa_idx2.                                          *)
(***************************************************************************)
C29_HessianBlockShape ==
    HessianCalled =>
        /\ \A w \in HessianWrites(call.kappa_idx, call.kappa_idx2) :
              InsideShape(AccumulatorShape(call.kappa_idx, call.kappa_idx2), w)
        /\ ret.err = "none"
        /\ ret.val.shape = <<Len(call.kappa_idx), Len(call.kappa_idx2)>>

\* More columns than rows: a write outside the accumulator.
C29_ReachedOutside ==
    /\ HessianCalled
    /\ 0 < Len(call.kappa_idx) /\ Len(call.kappa_idx) < Len(call.kappa_idx2)
    /\ ret.err \in OutOfBoundsOutcomes

\* Fewer columns than rows: a square matrix comes back.
C29_ReachedSquare ==
    /\ HessianCalled
    /\ Len(call.kappa_idx2) < Len(call.kappa_idx)
    /\ ret.err = "none"
    /\ ret.val.shape = <<Len(call.kappa_idx), Len(call.kappa_idx)>>
    /\ \E i \in 1..Len(call.kappa_idx) : ret.val.data[i, 1] # RZero

(***************************************************************************)
(* The string that annihilates at k and then creates at k.                 *)
(***************************************************************************)
NumberStringCall ==
    /\ AppliedOperator
    /\ Len(call.anni_idxs) = 1 /\ call.create_idxs = call.anni_idxs

\* Spin orbital k is occupied in determinant i of the space.
OccupiedIn(k, i) == k \in Occ(ci_info.idx2det[i], ci_info.num_active_orbs)

(***************************************************************************)
(* C24 as stated: for all determinants d and all spin orbitals k, occupied *)
(* in d or not, annihilating at k and then creating at k yields d with     *)
(* sign +1: the string acts as the identity.                               *)
(***************************************************************************)
C24_AnnihilateCreateIdentity ==
    NumberStringCall =>
        /\ ret.err = "none"
        /\ \A row \in 1..Len(Rows(heap[1])), i \in 1..NumDets(ci_info) :
              Rows(ret.val)[row][i] = RMul(call.factor, Rows(heap[1])[row][i])

(***************************************************************************)
(* C24 as amended: for all determinants d and all spin orbitals k occupied *)
(* in d, annihilating at k and then creating at k yields d with sign +1;   *)
(* for k not occupied in d the string gives the kill state, and d          *)
(* contributes nothing.                                                    *)
(***************************************************************************)
C24_AnnihilateCreateOccupied ==
    NumberStringCall =>
        /\ ret.err = "none"
        /\ \A row \in 1..Len(Rows(heap[1])), i \in 1..NumDets(ci_info) :
              Rows(ret.val)[row][i] =
                  IF OccupiedIn(call.anni_idxs[1], i)
                  THEN RMul(call.factor, Rows(heap[1])[row][i])
                  ELSE RZero

\* A state on two determinants, k occupied in one and empty in the other.
C24_Witness ==
    /\ NumberStringCall /\ ~is_SA
    /\ \E i \in 1..NumDets(ci_info), j \in 1..NumDets(ci_info) :
          /\ heap[1][i] # RZero /\ OccupiedIn(call.anni_idxs[1], i)
          /\ heap[1][j] # RZero /\ ~OccupiedIn(call.anni_idxs[1], j)
          /\ ret.val[i] = RMul(call.factor, heap[1][i])
          /\ ret.val[j] = RZero

\* The same on a batch.
C24_WitnessSA ==
    /\ NumberStringCall /\ is_SA
    /\ \E i \in 1..NumDets(ci_info) :
          /\ heap[1][1][i] # RZero /\ OccupiedIn(call.anni_idxs[1], i)
          /\ ret.val[1][i] = RMul(call.factor, heap[1][1][i])

(***************************************************************************)
(* A construction as a chain of one-step constructions: the steps taken    *)
(* one at a time, each as a forward construction of the one-step structure *)
(* with the given parameter, on the result of the step before.             *)
(***************************************************************************)
ConstructedUps == pc = "returned" /\ call.fn = "construct_ups_state"

StepStruct(k) ==
    Struct("UPS", <<call.wf_struct.excitation_operator_type[k]>>,
           <<call.wf_struct.excitation_indices[k]>>)

RunStep(k, theta, val) ==
    Outcome(construct_ups(is_SA, <<val>>, 1, ci_info, <<theta>>, StepStruct(k), FALSE))

\* The steps StepAt(1), StepAt(2), ... in this order, with the parameters
\* ThetaAt(1), ThetaAt(2), ...
StepChain(StepAt(_), ThetaAt(_)) ==
    For(LAMBDA acc, j :
            IF acc.err # "none" THEN acc ELSE RunStep(StepAt(j), ThetaAt(j), acc.val),
        [err |-> "none", val |-> heap[1]], NumSteps(call.wf_struct))

\* The j-th entry from the end
FromEnd(x, j) == x[Len(x) + 1 - j]

(***************************************************************************)
(* C25: construct_ups_state (and construct_ups_state_SA) without dagger    *)
(* applies the steps in schema order, the first step on the input state    *)
(* and the last step last; with dagger it applies them in reverse schema   *)
(* order, the last step first, each with the negated parameter of the      *)
(* loop.                                                                   *)
(***************************************************************************)
C25_StepOrder ==
    ConstructedUps =>
        CallOutcome =
            IF call.dagger
            THEN StepChain(LAMBDA j : NumSteps(call.wf_struct) + 1 - j,
                           LAMBDA j : -FromEnd(call.thetas, j))
            ELSE StepChain(LAMBDA j : j, LAMBDA j : call.thetas[j])

\* Two rotated steps whose two orders give different states, forward.
C25_Witness ==
    /\ ConstructedUps /\ ~call.dagger /\ ret.err = "none"
    /\ call.wf_struct = UpsSingleDouble /\ call.thetas = <<1, 1>>
    /\ CallOutcome # StepChain(LAMBDA j : 3 - j, LAMBDA j : 1)

\* The same in the dagger direction.
C25_WitnessDagger ==
    /\ ConstructedUps /\ call.dagger /\ ret.err = "none"
    /\ call.wf_struct = UpsSingleDouble /\ call.thetas = <<1, 1>>
    /\ CallOutcome # StepChain(LAMBDA j : j, LAMBDA j : -1)

(***************************************************************************)
(* C26: for every UPS structure with N steps and every parameter vector,   *)
(* longer than N too, construct_ups_state with dagger pairs step k with    *)
(* thetas[k], the parameter the forward direction pairs with step k.       *)
(***************************************************************************)
C26_DaggerPairsSameTheta ==
    (ConstructedUps /\ call.dagger) =>
        CallOutcome = StepChain(LAMBDA j : NumSteps(call.wf_struct) + 1 - j,
                                LAMBDA j : -call.thetas[NumSteps(call.wf_struct) + 1 - j])

\* A dagger construction with more parameters than steps.
C26_ReachedLonger ==
    /\ ConstructedUps /\ call.dagger
    /\ Len(call.thetas) > NumSteps(call.wf_struct)
    /\ call.thetas[1] = 0 /\ ret.err = "none" /\ ret.val # heap[1]

\* One of the operators is a unitary marker.
HasMarker(operators) ==
    \E k \in 1..Len(operators) : operators[k].kind \in {"U", "Ud"}

(***************************************************************************)
(* C27: when propagate_state is called with do_unsafe = True, no step of   *)
(* the sequence raises the error of a determinant outside the space, the   *)
(* 'U' and 'Ud' steps whose generators lead out of the space included.     *)
(***************************************************************************)
C27_UnsafeNeverRaises ==
    (Propagated /\ call.do_unsafe) => ret.err # "KeyError"

\* An unsafe propagation of one 'U' marker that raises KeyError.
C27_ReachedMarkerRaises ==
    /\ Propagated /\ call.do_unsafe
    /\ call.operators = <<StrElem("U")>>
    /\ ret.err = "KeyError"

\* Without markers an unsafe propagation never raises KeyError.
C27_FermionicUnsafe ==
    (Propagated /\ call.do_unsafe /\ ~HasMarker(call.operators)) =>
        ret.err # "KeyError"

\* An unsafe propagation of a fermionic operator that would raise KeyError
\* in safe mode.
C27_ReachedFermionicDiscards ==
    /\ Propagated /\ call.do_unsafe /\ ret.err = "none"
    /\ call.operators = <<OpElem(G1(0, 2))>>
    /\ Outcome(propagate(is_SA, <<heap[1]>>, call.operators, 1, ci_info, call.thetas,
                         call.wf_struct, call.do_folding, FALSE)).err = "KeyError"

(***************************************************************************)
(* Another interleaving of a label: its annihilation operators in label    *)
(* order, then its creation operators in label order.                      *)
(***************************************************************************)
Reinterleaved(fermi_label) ==
    SelectSeq(fermi_label, LAMBDA f : ~f[2]) \o SelectSeq(fermi_label, LAMBDA f : f[2])

ReinterleavedOp(op) == [k \in 1..Len(op) |-> <<Reinterleaved(op[k][1]), op[k][2]>>]

ReinterleavedElems(operators) ==
    [k \in 1..Len(operators) |->
        IF operators[k].kind = "op" THEN OpElem(ReinterleavedOp(operators[k].op))
        ELSE operators[k]]

MatrixOutcome(M) == [err |-> M.err, val |-> IF M.err = "none" THEN M.op_mat ELSE <<>>]

(***************************************************************************)
(* C28: the output of propagate_state and of build_operator_matrix depends *)
(* only on the sub-sequence of creation indices and the sub-sequence of    *)
(* annihilation indices of each label: the same labels with their          *)
(* operators interleaved differently give the same state, or the same      *)
(* matrix, or the same error.                                              *)
(***************************************************************************)
C28_InterleavingIrrelevant ==
    /\ Propagated =>
          CallOutcome = Rerun(ReinterleavedElems(call.operators), heap[1])
    /\ BuiltMatrix =>
          CallOutcome =
              MatrixOutcome(build_operator_matrix(ReinterleavedOp(call.operators[1].op),
                                                  ci_info, call.do_unsafe))

\* propagate_state on the interleaved label, with a nonzero result
C28_Witness ==
    /\ Propagated /\ call.operators = <<OpElem(InterleavedOp)>>
    /\ ret.err = "none"
    /\ \E row \in 1..Len(Rows(ret.val)), j \in 1..NumDets(ci_info) :
          Rows(ret.val)[row][j] # RZero

\* build_operator_matrix on the interleaved label, with a nonzero matrix
C28_WitnessMatrix ==
    /\ BuiltMatrix /\ call.operators = <<OpElem(InterleavedOp)>>
    /\ ret.err = "none"
    /\ \E i, j \in 1..NumDets(ci_info) : ret.val[i][j] # RZero

\* build_operator_matrix on the interleaved label gives an entry of the
\* opposite sign to the operator product that the label spells, read from
\* its right to its left.
C28_ReachedOppositeSign ==
    /\ BuiltMatrix /\ call.operators = <<OpElem(InterleavedOp)>> /\ ret.err = "none"
    /\ \E i, j \in 1..NumDets(ci_info) :
          /\ RefHits(RefLabelTerms(InterleavedOp[1][1], ci_info), i, j, ci_info)
          /\ ret.val[j][i] = RInt(-(RefLabelTerms(InterleavedOp[1][1], ci_info)[i].sign))

(***************************************************************************)
(* A structure of one triple excitation with a nonzero parameter, at the   *)
(* unitary markers of propagate_state (every element 'U' or 'Ud') or       *)
(* handed to a constructor directly.                                       *)
(***************************************************************************)
TripleMarkerCall ==
    /\ pc = "returned"
    /\ call.wf_struct \in TripleStructs
    /\ call.thetas[1] # 0
    /\ \/ call.fn \in {"construct_ups_state", "construct_ucc_state"}
       \/ /\ call.fn = "propagate_state"
          /\ call.operators # <<>>
          /\ \A k \in 1..Len(call.operators) : call.operators[k].kind \in {"U", "Ud"}

\* The directions of the steps, in the order they are executed
TripleDirections ==
    IF call.fn = "propagate_state"
    THEN [k \in 1..Len(call.operators) |->
             call.operators[Len(call.operators) + 1 - k].kind = "Ud"]
    ELSE <<call.dagger>>

\* The matrix of the generator of the step
TripleMatrix ==
    build_operator_matrix(G3(0, 1, 2, 4, 3, 6), ci_info, FALSE).op_mat

\* exp(theta T) v = cos(theta) v + sin(theta) T v for the generator of the
\* step, whose square is minus the identity on the two determinants.
TripleRotated(theta, v) ==
    VAdd(VScale(Cos(theta), v), VScale(Sin(theta), MatVec(TripleMatrix, v)))

\* The steps of the call, each with theta negated in the dagger direction
TripleApplied(v) ==
    For(LAMBDA acc, k :
            TripleRotated(IF TripleDirections[k] THEN -call.thetas[1]
                          ELSE call.thetas[1], acc),
        v, Len(TripleDirections))

(***************************************************************************)
(* C23 as stated: a unitary marker step of type triple with a nonzero      *)
(* parameter applies exp(theta T) through the operator matrix and the      *)
(* matrix exponential, negated for the dagger direction, whichever of the  *)
(* two kinds of structure is passed.                                       *)
(***************************************************************************)
C23_TripleBuiltForBothStructures ==
    (TripleMarkerCall /\ ~is_SA) =>
        CallOutcome = [err |-> "none", val |-> TripleApplied(heap[1])]

(***************************************************************************)
(* C23 amended: with a UCC structure the step applies exp(theta T) of the  *)
(* triple excitation through the operator matrix and the matrix            *)
(* exponential, negated for the dagger direction; with a UPS structure the *)
(* step is rejected with ValueError, for a single state and for a batch.   *)
(***************************************************************************)
C23_TripleBuiltForUcc ==
    /\ (TripleMarkerCall /\ ~is_SA /\ call.wf_struct.kind = "UCC") =>
          CallOutcome = [err |-> "none", val |-> TripleApplied(heap[1])]
    /\ (TripleMarkerCall /\ call.wf_struct.kind = "UPS") =>
          ret.err = "ValueError"

\* 'U' with a UCC triple rotates a state with both determinants populated.
C23_Witness ==
    /\ TripleMarkerCall /\ ~is_SA /\ call.wf_struct = UccTriple
    /\ call.operators = <<StrElem("U")>>
    /\ heap[1][1] # RZero /\ heap[1][2] # RZero
    /\ ret.err = "none" /\ ret.val # heap[1]

\* The dagger direction, where the rotation differs from the forward one
C23_WitnessDagger ==
    /\ TripleMarkerCall /\ call.fn = "construct_ucc_state" /\ call.dagger
    /\ ret.err = "none" /\ ret.val # heap[1]
    /\ ret.val # TripleRotated(call.thetas[1], heap[1])

\* 'Ud' after 'U' gives the state back.
C23_WitnessRoundTrip ==
    /\ TripleMarkerCall /\ call.wf_struct = UccTriple
    /\ call.operators = <<StrElem("Ud"), StrElem("U")>>
    /\ ret.err = "none" /\ ret.val = heap[1] /\ heap[1] # ZeroVec(2)

\* A UPS triple is rejected.
C23_WitnessUps ==
    /\ TripleMarkerCall /\ call.wf_struct = UpsTriple /\ ret.err = "ValueError"
    /\ call.fn = "propagate_state"

====
